---- MODULE Spec2Model ----
(***************************************************************************)
(* Model of the grade-lens multi-stage grading pipeline                    *)
(* (backend/cli.py GradingWorkflow and the agents it drives).              *)
(*                                                                         *)
(* Strings of the program are TLA+ strings; a filename is a sequence of    *)
(* one-character strings so that splitext, split("_"), isdigit and upper   *)
(* are computed as the code computes them.  Scores are integers (points).  *)
(***************************************************************************)
EXTENDS Integers, Sequences, FiniteSets, TLC

VARIABLES
    pc,         \* position in GradingWorkflow.run / process_all_submissions
    env,        \* the world the run starts in: config on disk, submissions dir
    config,     \* self.assignment_config (NoConfig until loaded)
    groups,     \* student_groups as a sequence of [key, files] in dict order
    idx,        \* index of the group the for-loop is at (1-based)
    cur,        \* the loop body's locals for the current student
    grades,     \* the list `grades` of process_all_submissions
    outcome,    \* per group: how its loop iteration ended
    modelCalls, \* kinds of model call made so far in the run
    saved,      \* whether OutputManager.save_results wrote the result artifacts
    logDir,     \* whether setup_logging created the output directory / grading.log
    runResult,  \* return value of run(): "none" while running, "true", "false"
    unit        \* input and output of the operation under test in the unit specifications

vars == <<pc, env, config, groups, idx, cur, grades, outcome, modelCalls,
          saved, logDir, runResult, unit>>

(***************************************************************************)
(* Bounds of the model.                                                    *)
(***************************************************************************)
MaxFiles == 2
MaxQuestions == 2

(***************************************************************************)
(* Generic helpers.                                                        *)
(***************************************************************************)
NoValue == "None"

Range(s) == {s[i] : i \in DOMAIN s}

RECURSIVE SumSeq(_)
SumSeq(s) == IF s = <<>> THEN 0 ELSE Head(s) + SumSeq(Tail(s))

RECURSIVE SeqOfSet(_)
\* the elements of a set of integers as an increasing sequence
SeqOfSet(S) ==
    IF S = {} THEN <<>>
    ELSE LET m == CHOOSE x \in S : \A y \in S : x <= y
         IN <<m>> \o SeqOfSet(S \ {m})

(***************************************************************************)
(* Characters and the str methods parse_filename uses.                     *)
(***************************************************************************)
Digits == {"0", "1", "2", "3", "4", "5", "6", "7", "8", "9"}

LowerLetters == <<"a", "b", "c", "d", "e", "f", "g", "h", "i", "j", "k", "l", "m",
                  "n", "o", "p", "q", "r", "s", "t", "u", "v", "w", "x", "y", "z">>
UpperLetters == <<"A", "B", "C", "D", "E", "F", "G", "H", "I", "J", "K", "L", "M",
                  "N", "O", "P", "Q", "R", "S", "T", "U", "V", "W", "X", "Y", "Z">>

\* str.upper on one character
UpperChar(c) ==
    IF \E i \in 1..26 : LowerLetters[i] = c
    THEN UpperLetters[CHOOSE i \in 1..26 : LowerLetters[i] = c]
    ELSE c

\* str.lower on one character
LowerChar(c) ==
    IF \E i \in 1..26 : UpperLetters[i] = c
    THEN LowerLetters[CHOOSE i \in 1..26 : UpperLetters[i] = c]
    ELSE c

\* str.upper
Upper(s) == [i \in DOMAIN s |-> UpperChar(s[i])]

\* str.lower
Lower(s) == [i \in DOMAIN s |-> LowerChar(s[i])]

\* str.isdigit: non-empty and every character a digit
IsDigit(s) == Len(s) > 0 /\ \A i \in DOMAIN s : s[i] \in Digits

\* os.path.splitext on a basename: the extension starts at the last dot,
\* unless only dots precede it
SplitExt(p) ==
    LET dots == {i \in DOMAIN p : p[i] = "."}
        dotIndex == IF dots = {} THEN 0 ELSE CHOOSE i \in dots : \A j \in dots : j <= i
        hasExt == dotIndex > 0 /\ \E k \in 1..(dotIndex - 1) : p[k] # "."
    IN IF hasExt
       THEN [root |-> SubSeq(p, 1, dotIndex - 1), ext |-> SubSeq(p, dotIndex, Len(p))]
       ELSE [root |-> p, ext |-> <<>>]

RECURSIVE SplitOn(_, _)
\* str.split(sep) for a one-character separator: always at least one token
SplitOn(s, sep) ==
    LET hits == {i \in DOMAIN s : s[i] = sep}
    IN IF hits = {} THEN <<s>>
       ELSE LET k == CHOOSE i \in hits : \A j \in hits : i <= j
            IN <<SubSeq(s, 1, k - 1)>> \o SplitOn(SubSeq(s, k + 1, Len(s)), sep)

RECURSIVE JoinWith(_, _)
\* sep.join(parts)
JoinWith(parts, sep) ==
    IF parts = <<>> THEN <<>>
    ELSE IF Len(parts) = 1 THEN parts[1]
    ELSE parts[1] \o <<sep>> \o JoinWith(Tail(parts), sep)

LATE == <<"L", "A", "T", "E">>
Unknown == <<"u", "n", "k", "n", "o", "w", "n">>
MinIdDigits == 4

(***************************************************************************)
(* SubmissionGrouper.parse_filename                                        *)
(***************************************************************************)
RECURSIVE ScanPartsLastId(_, _, _)
\* a loop in which every later number replaces submission_id
ScanPartsLastId(parts, i, acc) ==
    IF i > Len(parts) THEN acc
    ELSE LET part == parts[i]
         IN IF IsDigit(part) /\ Len(part) >= MinIdDigits
            THEN IF ~acc.found_student_id
                 THEN ScanPartsLastId(parts, i + 1,
                        [acc EXCEPT !.student_id = part, !.found_student_id = TRUE])
                 ELSE ScanPartsLastId(parts, i + 1,
                        [acc EXCEPT !.submission_id = <<part>>, !.found_submission_id = TRUE])
            ELSE ScanPartsLastId(parts, i + 1,
                        [acc EXCEPT !.remainder_parts = Append(@, part)])

RECURSIVE ScanParts(_, _, _)
\* the for-loop over parts[current_index:], acc = the loop's locals
ScanParts(parts, i, acc) ==
    IF i > Len(parts) THEN acc
    ELSE LET part == parts[i]
         IN IF IsDigit(part) /\ Len(part) >= MinIdDigits
            THEN IF ~acc.found_student_id
                 THEN ScanParts(parts, i + 1,
                        [acc EXCEPT !.student_id = part, !.found_student_id = TRUE])
                 ELSE IF ~acc.found_submission_id
                 THEN ScanParts(parts, i + 1,
                        [acc EXCEPT !.submission_id = <<part>>, !.found_submission_id = TRUE])
                 ELSE ScanParts(parts, i + 1,
                        [acc EXCEPT !.remainder_parts = Append(@, part)])
            ELSE ScanParts(parts, i + 1,
                        [acc EXCEPT !.remainder_parts = Append(@, part)])

\* the record of parse_filename once the parts are split; scan_from is the
\* index of the first part the loop looks at when there is no LATE marker
ParsedParts(filename, se, parts, is_late, scan_from) ==
    LET acc == ScanParts(parts, IF is_late THEN 3 ELSE scan_from,
                 [student_id |-> Unknown, submission_id |-> <<>>,
                  remainder_parts |-> <<>>,
                  found_student_id |-> FALSE, found_submission_id |-> FALSE])
    IN [student_name |-> parts[1], is_late |-> is_late,
        student_id |-> acc.student_id, submission_id |-> acc.submission_id,
        remainder |-> JoinWith(acc.remainder_parts, "_"),
        extension |-> se.ext, original_filename |-> filename]

\* a parse_filename that compares the marker with "LATE" letter for letter
parse_filename_exact_marker(filename) ==
    LET se == SplitExt(filename)
        parts == SplitOn(se.root, "_")
    IN IF Len(parts) < 2
       THEN [student_name |-> parts[1], is_late |-> FALSE, student_id |-> Unknown,
             submission_id |-> <<>>, remainder |-> <<>>, extension |-> se.ext,
             original_filename |-> filename]
       ELSE ParsedParts(filename, se, parts, parts[2] = LATE, 2)

\* a parse_filename without the early return, whose loop starts at the name
parse_filename_scan_name(filename) ==
    LET se == SplitExt(filename)
        parts == SplitOn(se.root, "_")
    IN ParsedParts(filename, se, parts,
                   Len(parts) >= 2 /\ Upper(parts[2]) = LATE, 1)

\* submission_id is <<>> for None and <<id>> otherwise
parse_filename(filename) ==
    LET se == SplitExt(filename)
        parts == SplitOn(se.root, "_")
    IN IF Len(parts) < 2
       THEN [student_name |-> parts[1], is_late |-> FALSE, student_id |-> Unknown,
             submission_id |-> <<>>, remainder |-> <<>>, extension |-> se.ext,
             original_filename |-> filename]
       ELSE LET is_late == Upper(parts[2]) = LATE
                current_index == IF is_late THEN 3 ELSE 2
                acc == ScanParts(parts, current_index,
                         [student_id |-> Unknown, submission_id |-> <<>>,
                          remainder_parts |-> <<>>,
                          found_student_id |-> FALSE, found_submission_id |-> FALSE])
            IN [student_name |-> parts[1], is_late |-> is_late,
                student_id |-> acc.student_id, submission_id |-> acc.submission_id,
                remainder |-> JoinWith(acc.remainder_parts, "_"),
                extension |-> se.ext, original_filename |-> filename]

\* the except branch of parse_filename
ParseFailed(filename) ==
    [student_name |-> Unknown, is_late |-> FALSE, student_id |-> Unknown,
     submission_id |-> <<>>, remainder |-> <<>>, extension |-> <<>>,
     original_filename |-> filename]

\* parse_filename on any argument: arg is [str |-> TRUE, chars |-> the name],
\* or [str |-> FALSE] for an argument os.path.splitext raises TypeError on
parse_filename_try(arg) ==
    IF arg.str THEN parse_filename(arg.chars) ELSE ParseFailed(arg)

\* "{student_name}_{student_id}"
\* a key made of the student name alone
identify_student_key_by_name(parsed) == parsed.student_name

identify_student_key(parsed) == parsed.student_name \o <<"_">> \o parsed.student_id

(***************************************************************************)
(* The submission files a directory may hold.  The catalog is in the order *)
(* sorted() gives the names (digits < upper case < "_" < lower case).      *)
(***************************************************************************)
Catalog == <<
    <<"a","l","_","1","2","3","4","_","a",".","p","y">>,
    <<"a","l","_","1","2","3","4","_","b",".","t","x","t">>,
    <<"a","l","_","L","A","T","E","_","1","2","3","4","_","c",".","p","d","f">>,
    <<"b","o","_","l","a","t","e","_","5","6","7","8","_","9","0","1","2",".","P","D","F">>,
    <<"c","y",".","j","a","v","a">>,
    <<"d","z","_","4","3","2","1",".","z","i","p">> >>

FileIds == DOMAIN Catalog

\* extensions=[".pdf", ".docx", ".txt", ".py", ".java"] of process_all_submissions
SubmissionExtensions ==
    { <<".","p","d","f">>, <<".","d","o","c","x">>, <<".","t","x","t">>,
      <<".","p","y">>, <<".","j","a","v","a">> }

\* a collection that takes every file of the directory
get_all_submissions_unfiltered(dirFiles) == SeqOfSet(dirFiles)

\* DocumentProcessor.get_all_submissions: the files of the directory whose
\* lower-cased extension is allowed, sorted by path
get_all_submissions(dirFiles) ==
    SeqOfSet({f \in dirFiles : Lower(SplitExt(Catalog[f]).ext) \in SubmissionExtensions})

(***************************************************************************)
(* SubmissionGrouper                                                       *)
(***************************************************************************)
RECURSIVE GroupIntoLast(_, _)
\* a grouping loop that assigns grouped[student_key] = [file_path]
GroupIntoLast(file_paths, grouped) ==
    IF file_paths = <<>> THEN grouped
    ELSE LET f == Head(file_paths)
             student_key == identify_student_key(parse_filename(Catalog[f]))
             hit == {i \in DOMAIN grouped : grouped[i].key = student_key}
         IN IF hit = {}
            THEN GroupIntoLast(Tail(file_paths),
                               Append(grouped, [key |-> student_key, files |-> <<f>>]))
            ELSE LET i == CHOOSE j \in hit : TRUE
                 IN GroupIntoLast(Tail(file_paths),
                                  [grouped EXCEPT ![i].files = <<f>>])

RECURSIVE GroupInto(_, _)
\* the loop of group_files_by_student: grouped[student_key].append(file_path),
\* keys in first-insertion order
GroupInto(file_paths, grouped) ==
    IF file_paths = <<>> THEN grouped
    ELSE LET f == Head(file_paths)
             student_key == identify_student_key(parse_filename(Catalog[f]))
             hit == {i \in DOMAIN grouped : grouped[i].key = student_key}
         IN IF hit = {}
            THEN GroupInto(Tail(file_paths),
                           Append(grouped, [key |-> student_key, files |-> <<f>>]))
            ELSE LET i == CHOOSE j \in hit : TRUE
                 IN GroupInto(Tail(file_paths),
                              [grouped EXCEPT ![i].files = Append(@, f)])

group_files_by_student(file_paths) == GroupInto(file_paths, <<>>)

\* student info comes from the first file of the group only
get_student_info(file_paths) ==
    IF file_paths = <<>>
    THEN [student_name |-> Unknown, student_id |-> Unknown, is_late |-> FALSE,
          file_count |-> 0, submission_id |-> <<>>]
    ELSE LET parsed == parse_filename(Catalog[file_paths[1]])
         IN [student_name |-> parsed.student_name, student_id |-> parsed.student_id,
             is_late |-> parsed.is_late, file_count |-> Len(file_paths),
             submission_id |-> parsed.submission_id]

validate_group_consistency(file_paths) ==
    IF Len(file_paths) <= 1 THEN TRUE
    ELSE LET first == parse_filename(Catalog[file_paths[1]])
         IN \A i \in 2..Len(file_paths) :
               LET parsed == parse_filename(Catalog[file_paths[i]])
               IN parsed.student_name = first.student_name
                  /\ parsed.student_id = first.student_id

CodeExtensions ==
    { <<".","p","y">>, <<".","j","a","v","a">>, <<".","c","p","p">>, <<".","c">>,
      <<".","j","s">>, <<".","t","s">> }

DocExtensions ==
    { <<".","p","d","f">>, <<".","d","o","c","x">>, <<".","t","x","t">>,
      <<".","d","o","c">>, <<".","m","d">> }

\* a categorisation that compares the extension as it is written
FileCategoryExact(f) ==
    LET ext == SplitExt(Catalog[f]).ext
    IN IF ext \in CodeExtensions THEN "code"
       ELSE IF ext \in DocExtensions THEN "document"
       ELSE "other"

\* the bucket categorize_files_by_type puts one file in
FileCategory(f) ==
    LET ext == Lower(SplitExt(Catalog[f]).ext)
    IN IF ext \in CodeExtensions THEN "code"
       ELSE IF ext \in DocExtensions THEN "document"
       ELSE "other"

RECURSIVE SelectCategory(_, _)
SelectCategory(file_paths, cat) ==
    IF file_paths = <<>> THEN <<>>
    ELSE IF FileCategory(Head(file_paths)) = cat
         THEN <<Head(file_paths)>> \o SelectCategory(Tail(file_paths), cat)
         ELSE SelectCategory(Tail(file_paths), cat)

categorize_files_by_type(file_paths) ==
    [code |-> SelectCategory(file_paths, "code"),
     document |-> SelectCategory(file_paths, "document"),
     other |-> SelectCategory(file_paths, "other")]

(***************************************************************************)
(* Assignment configuration (models/assignment_config.py).                 *)
(* An Optional value is <<>> for None and <<v>> otherwise.                 *)
(***************************************************************************)
QuestionBank == <<
    [id |-> "q1", points |-> 10],
    [id |-> "q2", points |-> 40],
    [id |-> "q3", points |-> 10],
    [id |-> "q4", points |-> 40] >>

NoConfig == [loaded |-> FALSE]

\* AssignmentConfig.from_dict: calculate_total_points is a mode="before" field
\* validator, so it runs only when the key is given (a default is not validated);
\* test_cases is no declared field and exists only as an extra attribute
AssignmentConfig(nq, total_points_key, has_test_cases) ==
    LET questions == SubSeq(QuestionBank, 1, nq)
    IN [loaded |-> TRUE,
        questions |-> questions,
        total_points |-> IF total_points_key = "absent" THEN <<>>
                         ELSE <<SumSeq([i \in DOMAIN questions |-> questions[i].points])>>,
        has_test_cases |-> has_test_cases]

QuestionIds(cfg) == {cfg.questions[i].id : i \in DOMAIN cfg.questions}

(***************************************************************************)
(* models/grading_result.py: construction of the pydantic records.         *)
(* A constructor yields [ok |-> FALSE] where pydantic raises               *)
(* ValidationError.                                                        *)
(***************************************************************************)
\* declaration order of the QuestionGrade fields: pydantic validates in this order
QuestionGradeFields == <<"question_id", "score", "max_score", "reasoning", "feedback",
                         "criteria_met", "criteria_missed", "deductions">>

\* declaration order of the AssignmentGrade fields up to the validated ones
AssignmentGradeFields == <<"student_name", "student_id", "submission_file",
                           "assignment_id", "assignment_name", "total_score",
                           "max_score", "questions">>

\* info.data of a field validator: the fields validated before `field`
ValidatedBefore(fields, field) ==
    LET at == CHOOSE i \in DOMAIN fields : fields[i] = field
    IN {fields[i] : i \in 1..(at - 1)}

\* QuestionGrade.validate_score: TRUE when the validator lets the score pass
validate_score(v, max_score) ==
    ~("max_score" \in ValidatedBefore(QuestionGradeFields, "score") /\ v > max_score)

\* AssignmentGrade.validate_total_score
validate_total_score(v, max_score) ==
    ~("max_score" \in ValidatedBefore(AssignmentGradeFields, "total_score") /\ v > max_score)

\* QuestionGrade(**f): score ge=0 and validate_score, max_score gt=0.
\* f is the record of keyword arguments.
QuestionGrade(f) ==
    IF f.score >= 0 /\ validate_score(f.score, f.max_score) /\ f.max_score > 0
    THEN [ok |-> TRUE, v |-> f]
    ELSE [ok |-> FALSE]

\* the extra attributes cli.py sets on a grade after construction
UnsetExtras == [is_late |-> <<>>, file_count |-> <<>>, submission_type |-> <<>>,
                file_list |-> <<>>]

\* AssignmentGrade(**f): total_score ge=0 and validate_total_score, max_score gt=0,
\* questions min_length=1; validate_questions_sum only logs a warning.
AssignmentGrade(f) ==
    IF f.total_score >= 0 /\ validate_total_score(f.total_score, f.max_score)
       /\ f.max_score > 0 /\ Len(f.questions) >= 1
    THEN [ok |-> TRUE, v |-> f @@ UnsetExtras]
    ELSE [ok |-> FALSE]

\* QuestionGrade.get_percentage compared with a threshold, in integers:
\* score / max_score * 100 >= t
PctAtLeast(score, max_score, t) == 100 * score >= t * max_score
PctAbove(score, max_score, t) == 100 * score > t * max_score

(***************************************************************************)
(* Model responses.  A JSON value is a tagged record:                      *)
(*   [t |-> "object", o |-> function from keys to JSON values]             *)
(*   [t |-> "string", s |-> s]   [t |-> "number", n |-> n]                 *)
(*   [t |-> "array", a |-> sequence]   [t |-> "null"]                      *)
(* A response text is [wrap, body]: wrap says what surrounds the body      *)
(* ("none", a ```json fence, prose, or "braced": prose that holds braces    *)
(* of its own, followed by the body in a ```json fence), body is           *)
(*   [t |-> "json", v |-> JSON value]   one well-formed JSON text          *)
(*   [t |-> "two_objects"]   two JSON objects with prose between them      *)
(*   [t |-> "broken"]        braces that do not form JSON                  *)
(*   [t |-> "plain"]         no brace at all                               *)
(* A call to llm.invoke yields [raised |-> TRUE] or                        *)
(* [raised |-> FALSE, text |-> response text].                             *)
(***************************************************************************)
JStr(s) == [t |-> "string", s |-> s]
JNum(n) == [t |-> "number", n |-> n]
JNull == [t |-> "null"]
JObj(f) == [t |-> "object", o |-> f]
JArr(q) == [t |-> "array", a |-> q]
EmptyObject == JObj(<<>>)

Raised == [raised |-> TRUE]
Said(wrap, body) == [raised |-> FALSE, text |-> [wrap |-> wrap, body |-> body]]
JsonBody(j) == [t |-> "json", v |-> j]

\* json.loads(text): the value, or not ok for JSONDecodeError
json_loads(text) ==
    IF text.wrap = "none" /\ text.body.t = "json"
    THEN [ok |-> TRUE, v |-> text.body.v]
    ELSE [ok |-> FALSE]

\* whether the body of a text starts with "{" and ends with "}"
BraceSpan(text) ==
    \/ text.body.t \in {"two_objects", "broken"}
    \/ text.body.t = "json" /\ text.body.v.t = "object"

\* json.loads on the span from the first "{" to the last "}" of the text
loads_brace_span(text) ==
    IF text.body.t = "json" /\ text.body.v.t = "object"
    THEN [ok |-> TRUE, v |-> text.body.v]
    ELSE [ok |-> FALSE]

\* json.loads of group 1 of ```(?:json)?\s*(\{.*?\})\s*```: the body, when it
\* is in a fence and has a brace span; not ok without a match or when
\* json.loads raises
fenced_block_loads(text) ==
    IF text.wrap \in {"fence", "braced"} /\ BraceSpan(text)
    THEN loads_brace_span(text) ELSE [ok |-> FALSE]

\* json.loads of the match of the greedy \{.*\}: from the first "{" of the
\* whole text, which for a "braced" text is in the prose before the fence
greedy_span_loads(text) ==
    IF text.wrap # "braced" /\ BraceSpan(text)
    THEN loads_brace_span(text) ELSE [ok |-> FALSE]

\* QAGradingAgent._parse_llm_response: direct parse, then the fenced block
\* ```(?:json)?\s*(\{.*?\})\s*```, then the greedy \{.*\}; None when all fail
\* (json.JSONDecodeError is the only exception caught)
_parse_llm_response(text) ==
    LET direct == json_loads(text)
        fenced == fenced_block_loads(text)
        greedy == greedy_span_loads(text)
    IN IF direct.ok THEN direct
       ELSE IF fenced.ok THEN fenced
       ELSE IF greedy.ok THEN greedy
       ELSE [ok |-> FALSE]

\* Python truthiness of a JSON value (`if not grading_data`)
Truthy(j) ==
    CASE j.t = "object" -> DOMAIN j.o # {}
      [] j.t = "array" -> Len(j.a) > 0
      [] j.t = "string" -> j.s # ""
      [] j.t = "number" -> j.n # 0
      [] OTHER -> FALSE

\* dict.get(key, default)
Get(obj, key, default) == IF key \in DOMAIN obj THEN obj[key] ELSE default

\* float(x): numbers and numeric strings convert; anything else raises
\* ValueError / TypeError.  A numeric string is written JStr("7") and
\* converts by the table NumericStrings.
NumericStrings == [s \in {"0", "7", "10"} |-> CASE s = "0" -> 0 [] s = "7" -> 7 [] OTHER -> 10]

float(j) ==
    CASE j.t = "number" -> [ok |-> TRUE, v |-> j.n]
      [] j.t = "string" /\ j.s \in DOMAIN NumericStrings -> [ok |-> TRUE, v |-> NumericStrings[j.s]]
      [] OTHER -> [ok |-> FALSE]

\* a pydantic `str` field accepts a JSON string only
IsStr(j) == j.t = "string"

\* a pydantic Optional[List[str]] field: None, or a list of strings
IsOptStrList(j) ==
    \/ j.t = "null"
    \/ j.t = "array" /\ \A i \in DOMAIN j.a : j.a[i].t = "string"

\* the Python value of an Optional[List[str]] JSON value: <<>> for None or []
StrList(j) == IF j.t = "array" THEN [i \in DOMAIN j.a |-> j.a[i].s] ELSE <<>>

(***************************************************************************)
(* QAGradingAgent: grading one question (the second, effective definition  *)
(* of grade_single_question; the first one at lines 119-229 is shadowed).  *)
(***************************************************************************)
ErrorReasoning == "Error: Unable to grade this question due to processing failure"
ContactInstructor == "Please contact instructor for manual review"
NoAnswerProvided == "No answer provided"
NoReasoningProvided == "No reasoning provided"

\* `not answer_text or answer_text.strip() == ""` on the texts of the model
BlankTexts == {"", " ", "\n"}
IsBlank(text) == text \in BlankTexts

_create_error_question_grade(question, extracted_from_image, extraction_notes) ==
    QuestionGrade([question_id |-> question.id, score |-> 0, max_score |-> question.points,
                   reasoning |-> ErrorReasoning, feedback |-> ContactInstructor,
                   criteria_met |-> <<>>, criteria_missed |-> <<>>,
                   extracted_from_image |-> extracted_from_image,
                   image_processing_notes |-> extraction_notes]).v

\* the text put in the prompt as the student's answer
PromptAnswer(answer_data) ==
    IF IsBlank(answer_data.text) THEN NoAnswerProvided ELSE answer_data.text

\* lines 568-580: QuestionGrade(...) from the parsed response; not ok where
\* the try block raises (AttributeError on a non-dict, ValueError/TypeError of
\* float(), pydantic ValidationError)
GradeFromData(question, answer_data, grading_data) ==
    IF grading_data.t # "object" THEN [ok |-> FALSE]
    ELSE LET d == grading_data.o
             qid == Get(d, "question_id", JStr(question.id))
             score == float(Get(d, "score", JNum(0)))
             max_score == float(Get(d, "max_score", JNum(question.points)))
             reasoning == Get(d, "reasoning", JStr(NoReasoningProvided))
             feedback == Get(d, "feedback", JNull)
             met == Get(d, "criteria_met", JNull)
             missed == Get(d, "criteria_missed", JNull)
         IN IF score.ok /\ max_score.ok /\ IsStr(qid) /\ IsStr(reasoning)
               /\ (feedback.t \in {"null", "string"})
               /\ IsOptStrList(met) /\ IsOptStrList(missed)
            THEN QuestionGrade(
                   [question_id |-> qid.s, score |-> score.v, max_score |-> max_score.v,
                    reasoning |-> reasoning.s,
                    feedback |-> IF feedback.t = "string" THEN feedback.s ELSE NoValue,
                    criteria_met |-> StrList(met), criteria_missed |-> StrList(missed),
                    extracted_from_image |-> answer_data.extracted_from_image,
                    image_processing_notes |-> answer_data.extraction_notes])
            ELSE [ok |-> FALSE]

\* response.content parsed, or not ok when llm.invoke raises or no JSON is found
ParseReply(resp) ==
    IF resp.raised THEN [ok |-> FALSE] ELSE _parse_llm_response(resp.text)

\* `if not grading_data: return error grade`, else the QuestionGrade of the data
BuildGrade(question, answer_data, parsed) ==
    IF parsed.ok /\ Truthy(parsed.v)
    THEN GradeFromData(question, answer_data, parsed.v)
    ELSE [ok |-> FALSE]

\* the value of the try block, or the except branch's error grade
OrErrorQuestionGrade(built, err) == IF built.ok THEN built.v ELSE err

\* grade_single_question(question, answer_data, assignment_config, context):
\* resp is what self.llm.invoke does on this call.  The result carries the
\* grade, the number of llm.invoke calls made and the answer text prompted.
grade_single_question(question, answer_data, resp) ==
    [grade |-> OrErrorQuestionGrade(
                  BuildGrade(question, answer_data, ParseReply(resp)),
                  _create_error_question_grade(question, answer_data.extracted_from_image,
                                               answer_data.extraction_notes)),
     llm_calls |-> 1,
     prompt_answer |-> PromptAnswer(answer_data)]

(***************************************************************************)
(* QAGradingAgent: grading one submission.  A call that may raise yields   *)
(* [raised |-> TRUE] or [raised |-> FALSE, v |-> value].                   *)
(***************************************************************************)
ProcessingErrorComment == "Error processing submission - requires manual review"
ProcessingErrorReason == "Processing error during automated grading"
EmptySubmissionReasoning == "No submission or empty submission"
EmptySubmissionFeedback == "No response provided for this question"
NoSubmissionComment == "No submission provided"

\* assignment_config.total_points or 0.0
TotalPointsOrZero(cfg) == IF cfg.total_points = <<>> THEN 0 ELSE cfg.total_points[1]

\* the per-question records of _create_error_grade (no image fields are passed)
ErrorQuestionGrades(cfg) ==
    [i \in DOMAIN cfg.questions |->
        QuestionGrade([question_id |-> cfg.questions[i].id, score |-> 0,
                       max_score |-> cfg.questions[i].points,
                       reasoning |-> ErrorReasoning, feedback |-> ContactInstructor,
                       criteria_met |-> <<>>, criteria_missed |-> <<>>,
                       extracted_from_image |-> FALSE,
                       image_processing_notes |-> NoValue]).v]

\* a constructed AssignmentGrade as the result of a call that may raise
Raising(g) == IF g.ok THEN [raised |-> FALSE, v |-> g.v] ELSE [raised |-> TRUE]

\* _create_error_grade: raises (ValidationError, max_score gt=0) when the
\* configuration has no total_points
_create_error_grade(cfg, student_name, student_id, submission_file) ==
    Raising(AssignmentGrade(
                [student_name |-> student_name, student_id |-> student_id,
                 submission_file |-> submission_file,
                 total_score |-> 0, max_score |-> TotalPointsOrZero(cfg),
                 questions |-> ErrorQuestionGrades(cfg),
                 overall_comment |-> ProcessingErrorComment,
                 strengths |-> <<>>, areas_for_improvement |-> <<>>,
                 requires_human_review |-> TRUE,
                 review_reason |-> ProcessingErrorReason]))

\* the per-question records of grade_empty_submission
EmptyQuestionGrades(cfg) ==
    [i \in DOMAIN cfg.questions |->
        QuestionGrade([question_id |-> cfg.questions[i].id, score |-> 0,
                       max_score |-> cfg.questions[i].points,
                       reasoning |-> EmptySubmissionReasoning,
                       feedback |-> EmptySubmissionFeedback,
                       criteria_met |-> <<>>, criteria_missed |-> <<>>,
                       extracted_from_image |-> FALSE,
                       image_processing_notes |-> NoValue]).v]

\* grade_empty_submission: same shape, no review flag; raises like _create_error_grade
grade_empty_submission(cfg, student_name, student_id, submission_file) ==
    Raising(AssignmentGrade(
                [student_name |-> student_name, student_id |-> student_id,
                 submission_file |-> submission_file,
                 total_score |-> 0, max_score |-> TotalPointsOrZero(cfg),
                 questions |-> EmptyQuestionGrades(cfg),
                 overall_comment |-> NoSubmissionComment,
                 strengths |-> <<>>, areas_for_improvement |-> <<>>,
                 requires_human_review |-> FALSE, review_reason |-> NoValue]))

QuestionNotFound == "Question not found in extraction"

\* extracted_answers.get(question.id, {...}) of grade_submission_with_extraction
AnswerFor(extracted_answers, qid) ==
    IF qid \in DOMAIN extracted_answers THEN extracted_answers[qid]
    ELSE [text |-> "", extracted_from_image |-> FALSE, extraction_notes |-> QuestionNotFound]

\* the loop over assignment_config.questions: one grade_single_question per
\* question in assignment order, resps[i] being the model's behaviour on the
\* i-th call
GradeEachQuestion(cfg, extracted_answers, resps) ==
    [i \in DOMAIN cfg.questions |->
        grade_single_question(cfg.questions[i],
                              AnswerFor(extracted_answers, cfg.questions[i].id),
                              resps[i])]

\* an AssignmentGrade whose total_score is the score of the first question
SumUpFirst(student_name, student_id, submission_file, question_grades) ==
    AssignmentGrade(
        [student_name |-> student_name, student_id |-> student_id,
         submission_file |-> submission_file,
         total_score |-> IF question_grades = <<>> THEN 0 ELSE question_grades[1].score,
         max_score |-> SumSeq([i \in DOMAIN question_grades |-> question_grades[i].max_score]),
         questions |-> question_grades, overall_comment |-> NoValue,
         strengths |-> <<>>, areas_for_improvement |-> <<>>,
         requires_human_review |-> FALSE, review_reason |-> NoValue])

\* lines 679-700: the AssignmentGrade over the question grades, total_score and
\* max_score being their sums
SumUp(student_name, student_id, submission_file, question_grades) ==
    AssignmentGrade(
        [student_name |-> student_name, student_id |-> student_id,
         submission_file |-> submission_file,
         total_score |-> SumSeq([i \in DOMAIN question_grades |-> question_grades[i].score]),
         max_score |-> SumSeq([i \in DOMAIN question_grades |-> question_grades[i].max_score]),
         questions |-> question_grades, overall_comment |-> NoValue,
         strengths |-> <<>>, areas_for_improvement |-> <<>>,
         requires_human_review |-> FALSE, review_reason |-> NoValue])

\* the except branch: any exception of the body falls back to
\* _create_error_grade, whose own exception propagates
OrErrorGrade(g, cfg, student_name, student_id, submission_file, calls) ==
    IF g.ok THEN [raised |-> FALSE, v |-> g.v, llm_calls |-> calls]
    ELSE _create_error_grade(cfg, student_name, student_id, submission_file)
         @@ [llm_calls |-> calls]

GradeSubmission(cfg, student_name, student_id, submission_file, results) ==
    OrErrorGrade(SumUp(student_name, student_id, submission_file,
                       [i \in DOMAIN results |-> results[i].grade]),
                 cfg, student_name, student_id, submission_file,
                 SumSeq([i \in DOMAIN results |-> results[i].llm_calls]))

\* grade_submission_with_extraction: [raised, v, llm_calls]
grade_submission_with_extraction(cfg, student_name, extracted_answers, student_id, submission_file, resps) ==
    GradeSubmission(cfg, student_name, student_id, submission_file,
                    GradeEachQuestion(cfg, extracted_answers, resps))

(***************************************************************************)
(* ReportGenerator (agents/report_generator.py)                            *)
(***************************************************************************)
RECURSIVE CountIf(_, _)
\* sum(1 for q in question_grades if flags[q])
CountIf(flags, i) ==
    IF i > Len(flags) THEN 0
    ELSE (IF flags[i] THEN 1 ELSE 0) + CountIf(flags, i + 1)

\* _calculate_statistics: percentage is kept as the pair total_score / max_score
\* (the mean and median of the per-question percentages decide nothing and
\* are left out)
_calculate_statistics(question_grades) ==
    [total_score |-> SumSeq([i \in DOMAIN question_grades |-> question_grades[i].score]),
     max_score |-> SumSeq([i \in DOMAIN question_grades |-> question_grades[i].max_score]),
     num_questions |-> Len(question_grades),
     num_perfect |-> CountIf([i \in DOMAIN question_grades |->
                        question_grades[i].score = question_grades[i].max_score], 1),
     num_zero |-> CountIf([i \in DOMAIN question_grades |->
                        question_grades[i].score = 0], 1)]

\* stats["percentage"] > t, the percentage being 0.0 when max_score is 0
StatsPctAbove(stats, t) == stats.max_score > 0 /\ PctAbove(stats.total_score, stats.max_score, t)
StatsPctAtLeast(stats, t) == stats.max_score > 0 /\ PctAtLeast(stats.total_score, stats.max_score, t)

\* the extraction notes of the model that contain "error" in any letter case
ExceptionMessages == {"'str' object does not support item assignment",
                      "'NoneType' object has no attribute 'strip'"}
MappingErrorNote(msg) == "Mapping error: " \o msg
NotesWithError == {MappingErrorNote(m) : m \in ExceptionMessages}
                  \cup {"Vision error on page 2"}
ContainsError(notes) == notes \in NotesWithError

MinReasoningLen == 50
NearPerfectPct == 95

ReasonMostZero == "More than half of questions received zero points"
ReasonNearPerfect == "Near-perfect score with some deductions - verify grading"
ReasonImageIssues(n) == ToString(n) \o " question(s) had image extraction issues"
ReasonUnclear(n) == ToString(n) \o " question(s) received zero with minimal explanation"

RECURSIVE JoinStrings(_, _)
\* sep.join(parts) on strings
JoinStrings(parts, sep) ==
    IF parts = <<>> THEN ""
    ELSE IF Len(parts) = 1 THEN parts[1]
    ELSE parts[1] \o sep \o JoinStrings(Tail(parts), sep)

\* a review check whose first condition is "at least half" instead of "more
\* than half"
_check_human_review_at_half(question_grades, stats) ==
    LET n == Len(question_grades)
        image_issues == CountIf([i \in DOMAIN question_grades |->
                            question_grades[i].extracted_from_image
                            /\ ContainsError(question_grades[i].image_processing_notes)], 1)
        unclear_grading == CountIf([i \in DOMAIN question_grades |->
                            question_grades[i].score = 0
                            /\ Len(question_grades[i].reasoning) < MinReasoningLen], 1)
        reasons ==
            (IF 2 * stats.num_zero >= n THEN <<ReasonMostZero>> ELSE <<>>)
            \o (IF StatsPctAbove(stats, NearPerfectPct) /\ stats.num_perfect < n
                THEN <<ReasonNearPerfect>> ELSE <<>>)
            \o (IF image_issues > 0 THEN <<ReasonImageIssues(image_issues)>> ELSE <<>>)
            \o (IF unclear_grading > 0 THEN <<ReasonUnclear(unclear_grading)>> ELSE <<>>)
    IN IF reasons # <<>>
       THEN [requires_review |-> TRUE, review_reason |-> JoinStrings(reasons, "; ")]
       ELSE [requires_review |-> FALSE, review_reason |-> NoValue]

\* _check_human_review_needed: (requires_review, reason)
_check_human_review_needed(question_grades, stats) ==
    LET n == Len(question_grades)
        image_issues == CountIf([i \in DOMAIN question_grades |->
                            question_grades[i].extracted_from_image
                            /\ ContainsError(question_grades[i].image_processing_notes)], 1)
        unclear_grading == CountIf([i \in DOMAIN question_grades |->
                            question_grades[i].score = 0
                            /\ Len(question_grades[i].reasoning) < MinReasoningLen], 1)
        reasons ==
            (IF 2 * stats.num_zero > n THEN <<ReasonMostZero>> ELSE <<>>)
            \o (IF StatsPctAbove(stats, NearPerfectPct) /\ stats.num_perfect < n
                THEN <<ReasonNearPerfect>> ELSE <<>>)
            \o (IF image_issues > 0 THEN <<ReasonImageIssues(image_issues)>> ELSE <<>>)
            \o (IF unclear_grading > 0 THEN <<ReasonUnclear(unclear_grading)>> ELSE <<>>)
    IN IF reasons # <<>>
       THEN [requires_review |-> TRUE, review_reason |-> JoinStrings(reasons, "; ")]
       ELSE [requires_review |-> FALSE, review_reason |-> NoValue]

\* question_config.text[:50] if the grade's id is a question of the assignment,
\* else the grade's question_id
QuestionLabel(cfg, question_id) ==
    IF question_id \in QuestionIds(cfg) THEN "Text of " \o question_id ELSE question_id

FirstTwo(list) == SubSeq(list, 1, IF Len(list) < 2 THEN Len(list) ELSE 2)
FirstFive(list) == SubSeq(list, 1, IF Len(list) < 5 THEN Len(list) ELSE 5)

\* the entries one question adds in _identify_strengths_and_weaknesses
QuestionStrengths(cfg, q) ==
    LET label == QuestionLabel(cfg, q.question_id)
    IN IF PctAtLeast(q.score, q.max_score, 90)
       THEN IF q.criteria_met # <<>>
            THEN <<[label |-> label, kind |-> "Excellent work", quoted |-> FirstTwo(q.criteria_met)]>>
            ELSE <<[label |-> label, kind |-> "Excellent performance", quoted |-> <<>>]>>
       ELSE IF PctAtLeast(q.score, q.max_score, 75) /\ q.criteria_met # <<>>
       THEN <<[label |-> label, kind |-> "Strong understanding demonstrated", quoted |-> <<>>]>>
       ELSE <<>>

QuestionWeaknesses(cfg, q) ==
    LET label == QuestionLabel(cfg, q.question_id)
    IN IF PctAtLeast(q.score, q.max_score, 75) THEN <<>>
       ELSE IF ~PctAtLeast(q.score, q.max_score, 60)
       THEN IF q.criteria_missed # <<>>
            THEN <<[label |-> label, kind |-> "Missed", quoted |-> FirstTwo(q.criteria_missed)]>>
            ELSE <<[label |-> label, kind |-> "Significant improvement needed", quoted |-> <<>>]>>
       ELSE IF q.criteria_missed # <<>>
       THEN <<[label |-> label, kind |-> "Minor improvements needed",
               quoted |-> <<q.criteria_missed[1]>>]>>
       ELSE <<>>

RECURSIVE FlatMap(_, _, _)
FlatMap(cfg, question_grades, strong) ==
    IF question_grades = <<>> THEN <<>>
    ELSE (IF strong THEN QuestionStrengths(cfg, Head(question_grades))
          ELSE QuestionWeaknesses(cfg, Head(question_grades)))
         \o FlatMap(cfg, Tail(question_grades), strong)

\* strengths and weaknesses without the cut to 5 entries
_identify_all_strengths_and_weaknesses(question_grades, cfg) ==
    [strengths |-> FlatMap(cfg, question_grades, TRUE),
     weaknesses |-> FlatMap(cfg, question_grades, FALSE)]

\* _identify_strengths_and_weaknesses: both lists cut to their first 5 entries
_identify_strengths_and_weaknesses(question_grades, cfg) ==
    [strengths |-> FirstFive(FlatMap(cfg, question_grades, TRUE)),
     weaknesses |-> FirstFive(FlatMap(cfg, question_grades, FALSE))]

\* the fallback comment of _generate_overall_comment, by percentage band
TemplateComment(stats) ==
    LET score == " Score: " \o ToString(stats.total_score) \o "/" \o ToString(stats.max_score)
    IN IF StatsPctAtLeast(stats, 90) THEN "Excellent work!" \o score
       ELSE IF StatsPctAtLeast(stats, 80) THEN "Very good work overall." \o score
       ELSE IF StatsPctAtLeast(stats, 70) THEN "Good effort." \o score
       ELSE IF StatsPctAtLeast(stats, 60) THEN "Satisfactory work." \o score
       ELSE "This assignment needs significant improvement." \o score

\* a comment that falls back to one fixed sentence
_generate_fixed_comment(stats, narr) ==
    IF narr.raised
    THEN "Report generation encountered an error. Please review individual question feedback."
    ELSE narr.content

\* _generate_overall_comment: one llm.invoke; narr is [raised |-> TRUE] or
\* [raised |-> FALSE, content |-> the stripped text, quoted |-> whether the
\* model wrapped it in double quotes, which are then removed]
_generate_overall_comment(stats, narr) ==
    IF narr.raised THEN TemplateComment(stats) ELSE narr.content

\* the dictionary generate_report returns
ReportData(stats, sw, review, overall_comment) ==
    [total_score |-> stats.total_score, max_score |-> stats.max_score,
     overall_comment |-> overall_comment,
     strengths |-> sw.strengths, areas_for_improvement |-> sw.weaknesses,
     requires_human_review |-> review.requires_review,
     review_reason |-> review.review_reason,
     llm_calls |-> 1]

ReportOn(question_grades, cfg, narr, stats) ==
    ReportData(stats, _identify_strengths_and_weaknesses(question_grades, cfg),
               _check_human_review_needed(question_grades, stats),
               _generate_overall_comment(stats, narr))

\* generate_report: nothing in the try block raises on validated QuestionGrade
\* records, so the except branch (lines 104-119) is not reachable from the
\* pipeline and is not modelled
generate_report(question_grades, cfg, narr) ==
    ReportOn(question_grades, cfg, narr, _calculate_statistics(question_grades))

\* the field updates a route makes after generate_report (cli.py 334-343,
\* 476-484, 553-561)
ApplyReport(grade, report, is_late, file_count, submission_type) ==
    [grade EXCEPT !.overall_comment = report.overall_comment,
                  !.strengths = report.strengths,
                  !.areas_for_improvement = report.areas_for_improvement,
                  !.requires_human_review = report.requires_human_review,
                  !.review_reason = report.review_reason,
                  !.is_late = <<is_late>>,
                  !.file_count = <<file_count>>,
                  !.submission_type = <<submission_type>>]

(***************************************************************************)
(* AnswerExtractionAgent (agents/answer_extraction_agent.py).              *)
(* The world of one file is a record x:                                    *)
(*   text_content  what extract_text_from_file returns ("" on failure)     *)
(*   embedded      number of embedded images above the size threshold,     *)
(*                 or -1 when fitz.open raises                             *)
(*   page_count    pages of the PDF; raster_raises: convert_from_path      *)
(*   encodable     how many of the images convert to PNG/base64            *)
(*   vision, align what llm.invoke does on the vision / alignment call     *)
(***************************************************************************)
PageCeiling == 20
MaxRasterPages == 10
MaxVisionImages == 10

Min(a, b) == IF a < b THEN a ELSE b

PdfExt == <<".", "p", "d", "f">>

\* _extract_images_pymupdf: the number of images kept ([] when fitz raises)
_extract_images_pymupdf(x) == IF x.embedded < 0 THEN 0 ELSE x.embedded

\* _convert_pages_to_images(pdf_path, max_pages=10): the number of page images
_convert_pages_to_images(x) ==
    IF x.embedded < 0 THEN 0
    ELSE IF x.page_count > PageCeiling THEN 0
    ELSE IF x.raster_raises THEN 0
    ELSE Min(x.page_count, MaxRasterPages)

\* a chain that rasterises the pages whether or not embedded images were found
_extract_images_both(x) ==
    LET embedded == _extract_images_pymupdf(x)
        pages == _convert_pages_to_images(x)
    IN [images |-> embedded + pages, has_images |-> embedded + pages > 0,
        tried |-> IF x.embedded >= 0 /\ x.page_count <= PageCeiling
                  THEN <<"embedded", "rasterize">> ELSE <<"embedded">>]

\* _extract_images_hybrid: [images, has_images, strategies tried in order]
_extract_images_hybrid(x) ==
    LET embedded == _extract_images_pymupdf(x)
        pages == _convert_pages_to_images(x)
    IN IF embedded > 0
       THEN [images |-> embedded, has_images |-> TRUE, tried |-> <<"embedded">>]
       ELSE [images |-> pages, has_images |-> pages > 0,
             tried |-> IF x.embedded >= 0 /\ x.page_count <= PageCeiling
                       THEN <<"embedded", "rasterize">> ELSE <<"embedded">>]

\* _extract_text_from_images: (extracted text, number of encoded images, calls)
_extract_text_from_images(n_images, x) ==
    LET image_data == Min(Min(n_images, MaxVisionImages), x.encodable)
    IN IF n_images = 0 \/ image_data = 0
       THEN [text |-> "", image_data |-> 0, llm_calls |-> 0]
       ELSE IF x.vision.raised
       THEN [text |-> "", image_data |-> image_data, llm_calls |-> 1]
       ELSE [text |-> x.vision.content, image_data |-> image_data, llm_calls |-> 1]

EmptyMapped == JObj([k \in {"text", "confidence"} |->
                        IF k = "text" THEN JStr("") ELSE JStr("low")])

\* an except branch that fills in the first question only
MapFallbackFirstOnly(content, questions) ==
    [q \in {questions[1].id} |->
        JObj([k \in {"text", "confidence"} |->
                IF k = "text" THEN JStr(content) ELSE JStr("low")])]

\* the except branch of _llm_map_to_questions
MapFallback(content, questions) ==
    [q \in {questions[i].id : i \in DOMAIN questions} |->
        JObj([k \in {"text", "confidence"} |->
                IF k = "text" THEN JStr(IF Len(questions) = 1 THEN content ELSE "")
                ELSE JStr("low")])]

\* `q.id in mapping_data` and `mapping_data[q.id]` for a parsed JSON value:
\* not ok where Python raises TypeError
MapLookup(mapping_data, qid) ==
    CASE mapping_data.t = "object" ->
            [ok |-> TRUE, v |-> Get(mapping_data.o, qid, EmptyMapped)]
      [] mapping_data.t = "array" ->
            IF \E i \in DOMAIN mapping_data.a : mapping_data.a[i] = JStr(qid)
            THEN [ok |-> FALSE] ELSE [ok |-> TRUE, v |-> EmptyMapped]
      [] mapping_data.t = "string" ->
            \* substring test; the strings of the model contain no question id
            [ok |-> TRUE, v |-> EmptyMapped]
      [] OTHER -> [ok |-> FALSE]

\* json.loads of the greedy \{.*\} span, or of the whole text when it has no
\* such span; not ok where that raises
ParseMapping(align) ==
    IF align.raised THEN [ok |-> FALSE]
    ELSE IF align.text.wrap = "braced" \/ BraceSpan(align.text)
    THEN greedy_span_loads(align.text)
    ELSE json_loads(align.text)

\* the result dictionary built from the parsed mapping, or the except branch
MapParsed(parsed, content, questions, ids) ==
    IF ~parsed.ok THEN MapFallback(content, questions)
    ELSE IF \A q \in ids : MapLookup(parsed.v, q).ok
    THEN [q \in ids |-> MapLookup(parsed.v, q).v]
    ELSE MapFallback(content, questions)

\* _llm_map_to_questions: a function from question ids to JSON values
_llm_map_to_questions(content, questions, align) ==
    MapParsed(ParseMapping(align), content, questions,
              {questions[i].id : i \in DOMAIN questions})

ImageSeparator == "\n\n--- Content from Images ---\n"
ProcessedNote(n) == "Processed " \o ToString(n) \o " images"
NoTextNote == "No text answer found"

\* the text of a mapped entry; not ok where .get / .strip() raise
MappedText(j) ==
    IF j.t # "object" THEN [ok |-> FALSE]
    ELSE LET t == Get(j.o, "text", JStr(""))
         IN IF t.t = "string" THEN [ok |-> TRUE, v |-> t.s] ELSE [ok |-> FALSE]

\* the entry of one question in extracted_answers
AnswerEntry(text, n_images, image_data) ==
    LET notes == (IF n_images > 0 THEN <<ProcessedNote(n_images)>> ELSE <<>>)
                 \o (IF IsBlank(text) THEN <<NoTextNote>> ELSE <<>>)
    IN [text |-> text,
        images |-> IF n_images > 0 THEN image_data ELSE 0,
        extracted_from_image |-> n_images > 0,
        extraction_notes |-> IF notes = <<>> THEN NoValue ELSE JoinStrings(notes, "; ")]

\* the except branch of _map_content_to_questions
MappingFailed(ids) ==
    [q \in ids |->
        [text |-> "", images |-> 0, extracted_from_image |-> FALSE,
         extraction_notes |-> MappingErrorNote(CHOOSE m \in ExceptionMessages : TRUE)]]

\* lines 286-318: the loop over the questions
DecorateMapping(mapping, n_images, vis) ==
    [answers |-> IF \A q \in DOMAIN mapping : MappedText(mapping[q]).ok
                 THEN [q \in DOMAIN mapping |->
                         AnswerEntry(MappedText(mapping[q]).v, n_images, vis.image_data)]
                 ELSE MappingFailed(DOMAIN mapping),
     llm_calls |-> vis.llm_calls + 1]

MapWithVision(text_content, n_images, questions, x, vis) ==
    DecorateMapping(
        _llm_map_to_questions(
            IF vis.text # "" THEN text_content \o ImageSeparator \o vis.text
            ELSE text_content,
            questions, x.align),
        n_images, vis)

\* _map_content_to_questions: the answers by question id, with the calls made
_map_content_to_questions(text_content, n_images, questions, x) ==
    MapWithVision(text_content, n_images, questions, x,
                  _extract_text_from_images(n_images, x))

Extracted(mapped, tried) ==
    [answers |-> mapped.answers, llm_calls |-> mapped.llm_calls, tried |-> tried]

ExtractWith(cfg, x, hybrid) ==
    Extracted(_map_content_to_questions(x.text_content, hybrid.images, cfg.questions, x),
              hybrid.tried)

\* extract_answers(submission_path, assignment_config) for file f in world x;
\* image_processing is self.enable_image_processing.  Every callee catches
\* its own exceptions, so the except branch (lines 106-117) is not reachable.
extract_answers(f, cfg, image_processing, x) ==
    ExtractWith(cfg, x,
                IF image_processing /\ Lower(SplitExt(Catalog[f]).ext) = PdfExt
                THEN _extract_images_hybrid(x)
                ELSE [images |-> 0, has_images |-> FALSE, tried |-> <<>>])

(***************************************************************************)
(* CodeExtractionAgent / CodeEvaluationAgent, as far as the routes of      *)
(* cli.py depend on them.  The world of a code submission is a record y:   *)
(*   read_raises  open() of a code file raises (extract_code_submission    *)
(*                then returns its minimal record)                         *)
(*   ai_eval      "" when evaluate_code yields an empty ai_evaluation,     *)
(*                else the text of str(ai_eval)                            *)
(***************************************************************************)
RECURSIVE StrOf(_)
\* a sequence of characters as one string
StrOf(chars) == IF chars = <<>> THEN "" ELSE Head(chars) \o StrOf(Tail(chars))

RECURSIVE ConcatFiles(_)
\* concatenate_code_files: separator with the file name, then its content
ConcatFiles(file_paths) ==
    IF file_paths = <<>> THEN ""
    ELSE "\nFile: " \o StrOf(Catalog[Head(file_paths)]) \o "\n\n"
         \o "content of " \o StrOf(Catalog[Head(file_paths)]) \o "\n\n"
         \o ConcatFiles(Tail(file_paths))

\* extract_code_submission: never raises; one _determine_file_purpose call per
\* file when there are several files
extract_code_submission(file_paths, y) ==
    IF y.read_raises
    THEN [combined_code |-> "", analysis |-> "Error extracting code: cannot read",
          file_count |-> 0, llm_calls |-> 0]
    ELSE [combined_code |-> ConcatFiles(file_paths),
          analysis |-> "Student submitted " \o ToString(Len(file_paths)) \o " file(s)",
          file_count |-> Len(file_paths),
          llm_calls |-> IF Len(file_paths) > 1 THEN Len(file_paths) ELSE 0]

\* _convert_code_to_answers: every question gets the same full_content
_convert_code_to_answers(cfg, code_submission, y) ==
    [q \in QuestionIds(cfg) |->
        [text |-> code_submission.combined_code \o "\n\nCode Analysis:\n"
                  \o code_submission.analysis
                  \o (IF y.ai_eval # "" THEN "\n\nAI Evaluation:\n" \o y.ai_eval ELSE ""),
         extracted_from_image |-> FALSE,
         extraction_notes |-> "Code submission with "
                              \o ToString(code_submission.file_count) \o " file(s)"]]

(***************************************************************************)
(* The worlds and model behaviours the pipeline is run against.            *)
(***************************************************************************)
\* one grading response that gives `score` with a reasoning text
Scored(score, reasoning) ==
    Said("none", JsonBody(JObj([k \in {"score", "reasoning"} |->
            IF k = "score" THEN JNum(score) ELSE JStr(reasoning)])))

LongReasoning == "The answer sets up the proof correctly and justifies each step."
ShortReasoning == "Wrong."

PipelineResponses == { Raised, Scored(0, ShortReasoning), Scored(10, LongReasoning) }

Narratives == { Raised, [raised |-> FALSE, content |-> "Solid work overall."] }

AnswerJson(text) == JObj([k \in {"text"} |-> JStr(text)])

\* alignment responses: q1 answered and q2 left out; a fenced object with
\* blank answers; a transport failure
AlignFirst == Said("none", JsonBody(JObj([k \in {"q1"} |-> AnswerJson("answer one")])))
AlignBlank == Said("fence", JsonBody(JObj([k \in {"q1", "q2"} |-> AnswerJson(" ")])))

\* the world of one document file; size_zero is os.path.getsize(file) == 0
DocWorld(size_zero, text_content, raster_raises, align) ==
    [size_zero |-> size_zero, text_content |-> text_content, embedded |-> 0,
     page_count |-> 1, raster_raises |-> raster_raises, encodable |-> 1,
     vision |-> [raised |-> FALSE, content |-> "handwritten answer"], align |-> align]

DocWorlds ==
    { DocWorld(TRUE, "", FALSE, Raised),
      DocWorld(FALSE, "typed answer", TRUE, AlignFirst),
      DocWorld(FALSE, "", FALSE, AlignFirst),
      DocWorld(FALSE, "", FALSE, Raised),
      DocWorld(FALSE, "typed answer", FALSE, AlignBlank) }

CodeWorlds == { [read_raises |-> r, ai_eval |-> e] :
                r \in BOOLEAN, e \in {"", "{'correctness': 'ok'}"} }

(***************************************************************************)
(* The stages of the three routes of cli.py.  The first stage of a route   *)
(* yields a record with                                                    *)
(*   returned     TRUE when the route has returned already (a grade of the *)
(*                empty-submission path, or None from the except branch)   *)
(*   grade        <<>> for None, <<g>> for a grade                         *)
(*   answers      extracted_answers, when the route goes on to grading     *)
(*   desc, file_count, submission_type   what the later stages are given   *)
(*   llm_calls    the model calls made                                     *)
(***************************************************************************)
NoGrade == <<>>

\* the route goes on to grade_submission_with_extraction
GoOn(answers, desc, file_count, submission_type, calls) ==
    [returned |-> FALSE, grade |-> NoGrade, answers |-> answers, desc |-> desc,
     file_count |-> file_count, submission_type |-> submission_type,
     llm_calls |-> calls]

\* the route returns `grade` without grading
ReturnEarly(grade, calls) ==
    [returned |-> TRUE, grade |-> grade, answers |-> <<>>, desc |-> "",
     file_count |-> 0, submission_type |-> "", llm_calls |-> calls]

\* _grade_code_submission after extract_code_submission: the read of
\* assignment_config.test_cases raises AttributeError unless config.json
\* carried that key; evaluate_code makes one model call
ConvertExtractedCode(cfg, code_files, y, code_submission) ==
    IF ~cfg.has_test_cases
    THEN ReturnEarly(NoGrade, code_submission.llm_calls)
    ELSE GoOn(_convert_code_to_answers(cfg, code_submission, y),
              ToString(Len(code_files)) \o " code file(s)",
              Len(code_files), "code", code_submission.llm_calls + 1)

\* _grade_code_submission, stages 1 to 3 up to the grading call
CodeStage(cfg, code_files, y) ==
    ConvertExtractedCode(cfg, code_files, y, extract_code_submission(code_files, y))

\* grade_empty_submission's result with is_late and file_count set; its
\* exception ends in the route's except
EmptyOrNone(g, is_late, file_count, calls) ==
    IF g.raised THEN ReturnEarly(NoGrade, calls)
    ELSE ReturnEarly(<<[g.v EXCEPT !.is_late = <<is_late>>,
                                   !.file_count = <<file_count>>]>>, calls)

\* the empty-submission returns of _grade_document_submission: no report is
\* generated
EmptyDocument(cfg, info, desc, file_count, calls) ==
    EmptyOrNone(grade_empty_submission(cfg, StrOf(info.student_name),
                                       StrOf(info.student_id), desc),
                info.is_late, file_count, calls)

\* all_extracted_answers after one more file: ex is that file's extraction
MergeFile(acc, ex, filename, n_files) ==
    [answers |->
        [q \in DOMAIN ex.answers |->
            [text |-> (IF q \in DOMAIN acc.answers THEN acc.answers[q].text ELSE "")
                      \o (IF IsBlank(ex.answers[q].text) THEN ""
                          ELSE "\n\n--- From " \o filename \o " ---\n"
                               \o ex.answers[q].text),
             extracted_from_image |->
                 (q \in DOMAIN acc.answers /\ acc.answers[q].extracted_from_image)
                 \/ ex.answers[q].extracted_from_image,
             extraction_notes |-> "Multi-file submission (" \o ToString(n_files)
                                  \o " files)"]],
     llm_calls |-> acc.llm_calls + ex.llm_calls]

RECURSIVE CombineFiles(_, _, _, _, _, _)
\* the multi-file loop: acc is all_extracted_answers with the calls made;
\* ws[i] is the world of doc_files[i]; an empty file is skipped
CombineFiles(cfg, doc_files, ws, image_processing, i, acc) ==
    IF i > Len(doc_files) THEN acc
    ELSE CombineFiles(cfg, doc_files, ws, image_processing, i + 1,
            IF ws[i].size_zero THEN acc
            ELSE MergeFile(acc, extract_answers(doc_files[i], cfg, image_processing, ws[i]),
                           StrOf(Catalog[doc_files[i]]), Len(doc_files)))

\* _grade_document_submission from the has_content check on
CheckContent(cfg, doc_files, info, desc, ex) ==
    IF \A q \in DOMAIN ex.answers : IsBlank(ex.answers[q].text)
    THEN EmptyDocument(cfg, info, desc, Len(doc_files), ex.llm_calls)
    ELSE GoOn([q \in DOMAIN ex.answers |->
                  [text |-> ex.answers[q].text,
                   extracted_from_image |-> ex.answers[q].extracted_from_image,
                   extraction_notes |-> ex.answers[q].extraction_notes]],
              desc, Len(doc_files), "document", ex.llm_calls)

\* _grade_document_submission, stage 1 up to the grading call
DocumentStage(cfg, doc_files, info, ws, image_processing) ==
    IF Len(doc_files) = 1
    THEN IF ws[1].size_zero
         THEN EmptyDocument(cfg, info, StrOf(Catalog[doc_files[1]]), 1, 0)
         ELSE CheckContent(cfg, doc_files, info, StrOf(Catalog[doc_files[1]]),
                           extract_answers(doc_files[1], cfg, image_processing, ws[1]))
    ELSE CheckContent(cfg, doc_files, info, ToString(Len(doc_files)) \o " file(s)",
                      CombineFiles(cfg, doc_files, ws, image_processing, 1,
                                   [answers |-> <<>>, llm_calls |-> 0]))

RECURSIVE DocText(_, _, _)
\* the doc_text loop of _grade_mixed_submission
DocText(doc_files, ws, i) ==
    IF i > Len(doc_files) THEN ""
    ELSE "\n\n--- Document: " \o StrOf(Catalog[doc_files[i]]) \o " ---\n"
         \o ws[i].text_content \o DocText(doc_files, ws, i + 1)

\* a mixed route that makes one alignment call per document file
CombineMixedAligned(cfg, code_files, doc_files, ws, code_submission) ==
    GoOn([q \in QuestionIds(cfg) |->
            [text |-> code_submission.combined_code \o "\n\n" \o DocText(doc_files, ws, 1),
             extracted_from_image |-> FALSE,
             extraction_notes |-> "Mixed submission: "
                 \o ToString(Len(code_files)) \o " code + "
                 \o ToString(Len(doc_files)) \o " document file(s)"]],
         ToString(Len(code_files) + Len(doc_files)) \o " files",
         Len(code_files) + Len(doc_files), "mixed",
         code_submission.llm_calls + Len(doc_files))

\* _grade_mixed_submission after extract_code_submission: every question gets
\* the same combined content
CombineMixed(cfg, code_files, doc_files, ws, code_submission) ==
    GoOn([q \in QuestionIds(cfg) |->
            [text |-> code_submission.combined_code \o "\n\n" \o DocText(doc_files, ws, 1),
             extracted_from_image |-> FALSE,
             extraction_notes |-> "Mixed submission: "
                 \o ToString(Len(code_files)) \o " code + "
                 \o ToString(Len(doc_files)) \o " document file(s)"]],
         ToString(Len(code_files) + Len(doc_files)) \o " files",
         Len(code_files) + Len(doc_files), "mixed", code_submission.llm_calls)

\* _grade_mixed_submission, stage 1 up to the grading call
MixedStage(cfg, code_files, doc_files, y, ws) ==
    CombineMixed(cfg, code_files, doc_files, ws, extract_code_submission(code_files, y))

(***************************************************************************)
(* GradingWorkflow.run as a state machine.                                 *)
(***************************************************************************)
Listings == {S \in SUBSET FileIds : Cardinality(S) <= MaxFiles}

\* what a run starts from: the config on disk ("missing": no directory or no
\* config.json, "invalid": json.load or AssignmentConfig.from_dict raises),
\* the number of questions, whether config.json has the keys total_points and
\* test_cases, the --answer-key argument, the submissions directory and the
\* constructor's enable_image_processing
Environments ==
    [cfg : {"missing", "invalid", "ok"}, nq : 1..MaxQuestions,
     total_points_key : {"absent", "null"}, has_test_cases : BOOLEAN,
     answer_key : {"none", "missing"}, dir_exists : BOOLEAN,
     listing : Listings, image_processing : BOOLEAN]

NoStudent == [route |-> "none"]
Idle == [op |-> "none"]

Init ==
    /\ env \in Environments
    /\ pc = "start"
    /\ config = NoConfig
    /\ groups = <<>>
    /\ idx = 0
    /\ cur = NoStudent
    /\ grades = <<>>
    /\ outcome = <<>>
    /\ modelCalls = 0
    /\ saved = FALSE
    /\ logDir = FALSE
    /\ runResult = "none"
    /\ unit = Idle

\* a load_assignment that hands back a configuration whatever it found
load_assignment_unchecked(e) ==
    AssignmentConfig(e.nq, e.total_points_key, e.has_test_cases)

\* InputProcessor.load_assignment: None when the directory or config.json is
\* missing or anything raises
load_assignment(e) ==
    IF e.cfg = "ok" THEN AssignmentConfig(e.nq, e.total_points_key, e.has_test_cases)
    ELSE NoConfig

\* run() up to the return of load_assignment_config
LoadConfig ==
    /\ pc = "start"
    /\ config' = load_assignment(env)
    /\ IF ~config'.loaded \/ env.answer_key = "missing"
       THEN pc' = "done" /\ runResult' = "false"
       ELSE pc' = "loaded" /\ UNCHANGED runResult
    /\ UNCHANGED <<env, groups, idx, cur, grades, outcome, modelCalls, saved, logDir, unit>>

\* process_all_submissions up to the for-loop; an early `return []` makes run()
\* return False
StartProcessing ==
    /\ pc = "loaded"
    /\ logDir' = TRUE
    /\ LET submission_files == get_all_submissions(env.listing)
       IN IF ~env.dir_exists \/ submission_files = <<>>
          THEN /\ pc' = "done"
               /\ runResult' = "false"
               /\ UNCHANGED <<groups, idx>>
          ELSE /\ groups' = group_files_by_student(submission_files)
               /\ idx' = 1
               /\ pc' = "loop"
               /\ UNCHANGED runResult
    /\ UNCHANGED <<env, config, cur, grades, outcome, modelCalls, saved, unit>>

\* the loop body up to the choice of the route
BeginStudent ==
    /\ pc = "loop"
    /\ idx <= Len(groups)
    /\ LET file_paths == groups[idx].files
           categorized == categorize_files_by_type(file_paths)
           code_files == categorized.code
           doc_files == categorized.document
       IN cur' = [route |-> IF code_files # <<>> /\ doc_files = <<>> THEN "code"
                            ELSE IF doc_files # <<>> /\ code_files = <<>> THEN "document"
                            ELSE "mixed",
                  student_info |-> get_student_info(file_paths),
                  code_files |-> code_files, doc_files |-> doc_files,
                  stage |-> ReturnEarly(NoGrade, 0)]
    /\ pc' = "route"
    /\ UNCHANGED <<env, config, groups, idx, grades, outcome, modelCalls, saved,
                   logDir, runResult, unit>>

\* the end of a route's first stage
Extracted_(stage) ==
    /\ cur' = [cur EXCEPT !.stage = stage]
    /\ modelCalls' = modelCalls + stage.llm_calls
    /\ pc' = IF stage.returned THEN "returned" ELSE "extracted"
    /\ UNCHANGED <<env, config, groups, idx, grades, outcome, saved, logDir,
                   runResult, unit>>

\* _grade_code_submission up to the grading call
ExtractCode ==
    /\ pc = "route" /\ cur.route = "code"
    /\ \E y \in CodeWorlds :
          Extracted_(CodeStage(config, cur.code_files, y))

\* _grade_document_submission up to the grading call
ExtractDocument ==
    /\ pc = "route" /\ cur.route = "document"
    /\ \E ws \in [DOMAIN cur.doc_files -> DocWorlds] :
          Extracted_(DocumentStage(config, cur.doc_files, cur.student_info, ws,
                                   env.image_processing))

\* _grade_mixed_submission up to the grading call
ExtractMixed ==
    /\ pc = "route" /\ cur.route = "mixed"
    /\ \E y \in CodeWorlds, ws \in [DOMAIN cur.doc_files -> DocWorlds] :
          Extracted_(MixedStage(config, cur.code_files, cur.doc_files, y, ws))

Responses(cfg) == [DOMAIN cfg.questions -> PipelineResponses]

\* the grading stage of every route: grade_submission_with_extraction; its
\* exception ends in the route's except, which returns None
GradeQuestions ==
    /\ pc = "extracted"
    /\ \E resps \in Responses(config) :
          LET graded == grade_submission_with_extraction(
                            config, StrOf(cur.student_info.student_name),
                            cur.stage.answers, StrOf(cur.student_info.student_id),
                            cur.stage.desc, resps)
          IN /\ cur' = [cur EXCEPT !.stage.grade =
                                      IF graded.raised THEN NoGrade ELSE <<graded.v>>]
             /\ modelCalls' = modelCalls + graded.llm_calls
             /\ pc' = IF graded.raised THEN "returned" ELSE "scored"
    /\ UNCHANGED <<env, config, groups, idx, grades, outcome, saved, logDir,
                   runResult, unit>>

\* the report stage of every route: generate_report and the field updates
GenerateReport ==
    /\ pc = "scored"
    /\ \E narr \in Narratives :
          LET report == generate_report(cur.stage.grade[1].questions, config, narr)
          IN /\ cur' = [cur EXCEPT !.stage.grade =
                            <<ApplyReport(cur.stage.grade[1], report,
                                          cur.student_info.is_late,
                                          cur.stage.file_count,
                                          cur.stage.submission_type)>>]
             /\ modelCalls' = modelCalls + report.llm_calls
    /\ pc' = "returned"
    /\ UNCHANGED <<env, config, groups, idx, grades, outcome, saved, logDir,
                   runResult, unit>>

\* a loop body without the routes' except branches: a student's failure
\* leaves the loop and ends the run
EndStudentAborting ==
    /\ pc = "returned"
    /\ IF cur.stage.grade # NoGrade
       THEN /\ grades' = Append(grades,
                    [cur.stage.grade[1] EXCEPT !.file_list =
                        <<[i \in DOMAIN groups[idx].files |->
                              StrOf(Catalog[groups[idx].files[i]])]>>])
            /\ outcome' = Append(outcome, "graded")
            /\ idx' = idx + 1
            /\ pc' = "loop"
            /\ UNCHANGED runResult
       ELSE /\ UNCHANGED <<grades, idx>>
            /\ outcome' = Append(outcome, "failed to grade")
            /\ pc' = "done"
            /\ runResult' = "false"
    /\ cur' = NoStudent
    /\ UNCHANGED <<env, config, groups, modelCalls, saved, logDir, unit>>

\* `if grade:` appends the grade with its file list; otherwise the failure is
\* only logged.  Nothing in the loop body raises outside the routes, which
\* catch every exception, so the except branch (lines 271-280) is not taken.
EndStudent ==
    /\ pc = "returned"
    /\ IF cur.stage.grade # NoGrade
       THEN /\ grades' = Append(grades,
                    [cur.stage.grade[1] EXCEPT !.file_list =
                        <<[i \in DOMAIN groups[idx].files |->
                              StrOf(Catalog[groups[idx].files[i]])]>>])
            /\ outcome' = Append(outcome, "graded")
       ELSE /\ UNCHANGED grades
            /\ outcome' = Append(outcome, "failed to grade")
    /\ idx' = idx + 1
    /\ cur' = NoStudent
    /\ pc' = "loop"
    /\ UNCHANGED <<env, config, groups, modelCalls, saved, logDir, runResult, unit>>

\* the end of the loop and the rest of run(): no grades -> False; otherwise
\* save_results, whose exception run() turns into False
Finish ==
    /\ pc = "loop"
    /\ idx > Len(groups)
    /\ IF grades = <<>>
       THEN runResult' = "false" /\ UNCHANGED saved
       ELSE \E disk_ok \in BOOLEAN :
               /\ saved' = disk_ok
               /\ runResult' = IF disk_ok THEN "true" ELSE "false"
    /\ pc' = "done"
    /\ UNCHANGED <<env, config, groups, idx, cur, grades, outcome, modelCalls,
                   logDir, unit>>

Next ==
    \/ LoadConfig
    \/ StartProcessing
    \/ BeginStudent
    \/ ExtractCode
    \/ ExtractDocument
    \/ ExtractMixed
    \/ GradeQuestions
    \/ GenerateReport
    \/ EndStudent
    \/ Finish

Spec == Init /\ [][Next]_vars

\* run() is a sequential program: it keeps taking steps until it returns.
\* Some step of Next is possible in every state but the ones with
\* pc = "done", so weak fairness of Next is the formula RunsOn; it is written
\* without ENABLED, next to the weak fairness of the last step.
RunsOn == []<><<Next>>_vars \/ <>[](pc = "done")

FairSpec == Spec /\ WF_vars(Finish) /\ RunsOn

(***************************************************************************)
(* Unit specifications: one operation applied to inputs drawn from a       *)
(* bounded set.  `unit` holds the call ([op |-> "call", ...arguments]) and *)
(* then the call with its result ([op |-> "returned", ..., out |-> ...]);  *)
(* the variables of the workflow stay as they are before a run.            *)
(***************************************************************************)
UnitStart ==
    /\ pc = "unit"
    /\ env = [cfg |-> "none"]
    /\ config = NoConfig
    /\ groups = <<>>
    /\ idx = 0
    /\ cur = NoStudent
    /\ grades = <<>>
    /\ outcome = <<>>
    /\ modelCalls = 0
    /\ saved = FALSE
    /\ logDir = FALSE
    /\ runResult = "none"

UnitFrame ==
    UNCHANGED <<pc, env, config, groups, idx, cur, grades, outcome, modelCalls,
                saved, logDir, runResult>>

Returned(out) == unit' = [op |-> "returned", in |-> unit, out |-> out]

UnitQuestions == {QuestionBank[i] : i \in 1..MaxQuestions}

(***************************************************************************)
(* grade_single_question on one question, one extracted answer and one     *)
(* behaviour of the grading model.                                         *)
(***************************************************************************)
\* a grading reply object with the given score and optional further keys
Reply(score, more) ==
    JObj(("score" :> score) @@ ("reasoning" :> JStr(LongReasoning)) @@ more)

NoMore == <<>>

ReplyObjects ==
    { Reply(JNum(n), NoMore) : n \in {-1, 0, 5, 10, 11, 50} }
    \cup { Reply(JNum(n), "max_score" :> JNum(m)) : n \in {5, 10}, m \in {0, 5, 100} }
    \cup { Reply(JStr(t), NoMore) : t \in {"7", "abc"} }
    \cup { Reply(JNum(5), "question_id" :> JStr("q9")),
           Reply(JNum(5), "question_id" :> JNum(1)),
           Reply(JNum(5), "criteria_met" :> JArr(<<JStr("states the theorem")>>)),
           Reply(JNum(5), "criteria_missed" :> JStr("units")),
           Reply(JNull, NoMore),
           JObj("reasoning" :> JStr(ShortReasoning)),
           EmptyObject }

UnitResponses ==
    { Raised, Said("none", [t |-> "plain"]), Said("prose", [t |-> "broken"]),
      Said("prose", [t |-> "two_objects"]),
      Said("none", JsonBody(JArr(<<JNum(5)>>))), Said("none", JsonBody(JNum(5))) }
    \cup { Said(w, JsonBody(o)) : w \in {"none", "fence", "prose"}, o \in ReplyObjects }

UnitAnswers ==
    { [text |-> t, extracted_from_image |-> e, extraction_notes |-> n] :
        t \in BlankTexts \cup {NoAnswerProvided, "x = 1"},
        e \in BOOLEAN, n \in {NoValue, "Processed 1 images"} }

InitGradeQ ==
    /\ UnitStart
    /\ unit \in { [op |-> "call", question |-> q, answer_data |-> a, resp |-> r] :
                    q \in UnitQuestions, a \in UnitAnswers, r \in UnitResponses }

GradeQuestion ==
    /\ unit.op = "call"
    /\ Returned(grade_single_question(unit.question, unit.answer_data, unit.resp))
    /\ UnitFrame

SpecGradeQ == InitGradeQ /\ [][GradeQuestion]_vars

\* the answers the claim C4 is about: blank text or the sentinel
NoAnswerGiven(answer_data) ==
    IsBlank(answer_data.text) \/ answer_data.text = NoAnswerProvided

\* C4: grade_single_question on an answer whose text is blank or the sentinel
\* "No answer provided" makes no model call and returns the zero-score grade
\* (score 0, max_score the question's points) whatever the model would say.
C4_NoCallOnBlank ==
    (unit.op = "returned" /\ NoAnswerGiven(unit.in.answer_data))
    => /\ unit.out.llm_calls = 0
       /\ unit.out.grade.score = 0
       /\ unit.out.grade.max_score = unit.in.question.points

\* C5: every QuestionGrade the engine constructs has 0 <= score <= max_score;
\* a response asserting a score above max_score never yields such a record.
C5_ScoreWithinMax ==
    unit.op = "returned"
    => /\ 0 <= unit.out.grade.score
       /\ unit.out.grade.score <= unit.out.grade.max_score

\* C21: the score of every QuestionGrade grade_single_question returns does
\* not exceed the point value of the question graded, whatever score and
\* max_score the model response asserts.
C21_ScoreWithinPoints ==
    unit.op = "returned" => unit.out.grade.score <= unit.in.question.points

(***************************************************************************)
(* grade_submission_with_extraction on one configuration, one mapping of   *)
(* extracted answers and one behaviour of the model per grading call.      *)
(***************************************************************************)
UnitConfigs ==
    { AssignmentConfig(nq, k, FALSE) : nq \in 1..MaxQuestions, k \in {"absent", "null"} }

SubmissionResponses ==
    { Raised, Said("none", [t |-> "plain"]),
      Said("fence", JsonBody(Reply(JNum(5), NoMore))),
      Said("none", JsonBody(Reply(JNum(5), "question_id" :> JStr("q9")))),
      Said("none", JsonBody(Reply(JNum(50), NoMore))) }

\* extracted_answers: any subset of the question ids, each with a blank or a
\* written answer
AnswerMappings(cfg) ==
    UNION { [ids -> { [text |-> t, extracted_from_image |-> FALSE,
                       extraction_notes |-> NoValue] : t \in {"", "x = 1"} }] :
            ids \in SUBSET QuestionIds(cfg) }

InitGradeSub ==
    /\ UnitStart
    /\ unit \in UNION { { [op |-> "call", cfg |-> cfg, extracted_answers |-> a,
                           resps |-> r] :
                            a \in AnswerMappings(cfg),
                            r \in [DOMAIN cfg.questions -> SubmissionResponses] } :
                        cfg \in UnitConfigs }

GradeSubmissionCall ==
    /\ unit.op = "call"
    /\ Returned(grade_submission_with_extraction(unit.cfg, "al", unit.extracted_answers,
                                                 "1234", "al_1234_b.txt", unit.resps))
    /\ UnitFrame

SpecGradeSub == InitGradeSub /\ [][GradeSubmissionCall]_vars

\* C6: grade_submission_with_extraction returns exactly one QuestionGrade per
\* assignment question, in assignment order, the i-th entry carrying the i-th
\* question's identifier, whatever the model does.
C6_OneEntryPerQuestionInOrder ==
    unit.op = "returned"
    => /\ ~unit.out.raised
       /\ Len(unit.out.v.questions) = Len(unit.in.cfg.questions)
       /\ \A i \in DOMAIN unit.in.cfg.questions :
             unit.out.v.questions[i].question_id = unit.in.cfg.questions[i].id

(***************************************************************************)
(* extract_answers on one file in one world.                               *)
(***************************************************************************)
OddAlignments ==
    { Raised,
      Said("none", [t |-> "plain"]),
      Said("prose", [t |-> "broken"]),
      Said("prose", [t |-> "two_objects"]),
      AlignFirst,
      AlignBlank,
      Said("prose", JsonBody(JObj(("q2" :> AnswerJson("answer two"))
                                  @@ ("q9" :> AnswerJson("stray"))))),
      Said("none", JsonBody(JObj("q1" :> JStr("answer one")))),
      Said("none", JsonBody(JObj("q1" :> JObj("text" :> JNum(4))))),
      Said("none", JsonBody(JArr(<<JStr("q1")>>))),
      Said("none", JsonBody(JNum(4))),
      Said("none", JsonBody(JNull)),
      Said("none", JsonBody(EmptyObject)) }

ExtractWorlds ==
    { x \in [text_content : {"", "typed answer"}, embedded : {-1, 0, 2},
             page_count : {1, PageCeiling, PageCeiling + 1}, raster_raises : BOOLEAN,
             encodable : {0, 2},
             vision : {Raised, [raised |-> FALSE, content |-> "handwritten answer"]},
             align : OddAlignments] :
        \* pages are counted and rasterised only when fitz opens the file and
        \* finds no embedded image; rasterisation fails in one way at a time
        /\ x.embedded # 0 => x.page_count = 1 /\ ~x.raster_raises
        /\ x.raster_raises => x.page_count = 1 }

\* a text file, a PDF and a PDF with an upper-case extension
ExtractFiles == {2, 3, 4}

InitExtract ==
    /\ UnitStart
    /\ unit \in { [op |-> "call", f |-> f, cfg |-> cfg, image_processing |-> ip, x |-> x] :
                    f \in ExtractFiles,
                    cfg \in { AssignmentConfig(nq, "null", FALSE) : nq \in 1..MaxQuestions },
                    ip \in BOOLEAN, x \in ExtractWorlds }

ExtractAnswersCall ==
    /\ unit.op = "call"
    /\ Returned(extract_answers(unit.f, unit.cfg, unit.image_processing, unit.x))
    /\ UnitFrame

SpecExtract == InitExtract /\ [][ExtractAnswersCall]_vars

\* C7: the key set of the mapping extract_answers returns is exactly the set
\* of question identifiers of the assignment, for every outcome of text
\* extraction, image extraction, the vision call and the alignment call.
C7_KeysAreQuestionIds ==
    unit.op = "returned" => DOMAIN unit.out.answers = QuestionIds(unit.in.cfg)

\* extract_answers has returned for a two-question assignment although the
\* alignment response was not a usable object
C7_ReturnedAfterOddAlignment ==
    /\ unit.op = "returned"
    /\ Len(unit.in.cfg.questions) > 1
    /\ unit.in.x.align \in { Raised, Said("none", JsonBody(JArr(<<JStr("q1")>>))),
                             Said("none", JsonBody(JObj("q1" :> JStr("answer one")))) }
    /\ DOMAIN unit.out.answers = QuestionIds(unit.in.cfg)

\* the strategies of the chain in the order extract_answers ran them: none
\* for a file that is no PDF or with image processing disabled, else the
\* embedded-image extraction once, followed at most once by rasterisation,
\* and rasterisation only after zero embedded images
ChainInOrder ==
    LET tried == unit.out.tried
        is_pdf == unit.in.f \in {3, 4}
    IN /\ (~is_pdf \/ ~unit.in.image_processing) => tried = <<>>
       /\ (is_pdf /\ unit.in.image_processing)
          => tried \in {<<"embedded">>, <<"embedded", "rasterize">>}
       /\ tried = <<"embedded", "rasterize">> => unit.in.x.embedded <= 0

Rasterized == Len(unit.out.tried) = 2 /\ unit.out.tried[2] = "rasterize"

\* C17 (as the code has it): embedded-image extraction runs first and once,
\* rasterisation only after zero embedded images and at most once, no
\* strategy is repeated, neither runs for a non-PDF file or with image
\* processing disabled, and rasterisation never runs for a PDF above the
\* page-count ceiling (a PDF of exactly PageCeiling pages is rasterised).
C17_ChainSkipsAboveCeiling ==
    unit.op = "returned"
    => /\ ChainInOrder
       /\ Rasterized => unit.in.x.page_count <= PageCeiling
       /\ (unit.out.tried # <<>> /\ unit.in.x.embedded = 0
           /\ unit.in.x.page_count <= PageCeiling) => Rasterized

\* C17 (as stated): the same, with rasterisation never run for a PDF at or
\* above the page-count ceiling.
C17_ChainSkipsAtCeiling ==
    unit.op = "returned"
    => /\ ChainInOrder
       /\ Rasterized => unit.in.x.page_count < PageCeiling

\* a PDF without embedded images and of exactly PageCeiling pages: both
\* strategies ran and the first MaxRasterPages pages went to the vision call
C17_RasterizedAtCeiling ==
    /\ unit.op = "returned"
    /\ unit.in.x.embedded = 0
    /\ unit.in.x.page_count = PageCeiling
    /\ unit.out.tried = <<"embedded", "rasterize">>
    /\ unit.in.x.encodable > 0

\* the notes extract_answers writes when no step failed
FailureFreeNotes ==
    {NoValue, NoTextNote}
    \cup UNION { {ProcessedNote(n), JoinStrings(<<ProcessedNote(n), NoTextNote>>, "; ")} :
                 n \in 1..MaxRasterPages }

\* the answer of question q was built after the vision call was made on the
\* encoded images and raised
VisionFailedFor(q) ==
    /\ unit.in.x.vision.raised
    /\ unit.out.answers[q].extracted_from_image
    /\ unit.out.answers[q].images > 0

\* C18: a failure of an extraction step does not leave extract_answers; the
\* answers are empty or partial, and the answers built after a failed vision
\* call carry a note of that failure in extraction_notes.
C18_FailureIsNoted ==
    unit.op = "returned"
    => \A q \in DOMAIN unit.out.answers :
          VisionFailedFor(q) => unit.out.answers[q].extraction_notes \notin FailureFreeNotes

\* the alignment response could not be parsed, or it is an object without
\* an entry for question q
AbsentOrUnparsed(q) ==
    LET parsed == ParseMapping(unit.in.x.align)
    IN ~parsed.ok \/ (parsed.v.t = "object" /\ q \notin DOMAIN parsed.v.o)

\* C19: when the alignment response cannot be parsed or lacks a question id,
\* the answer of that question is the whole content for an assignment with
\* exactly one question and an empty answer otherwise (stated for calls
\* without images, where the content is the extracted text).
C19_AlignerFallback ==
    (unit.op = "returned" /\ unit.out.tried = <<>>)
    => \A q \in DOMAIN unit.out.answers :
          AbsentOrUnparsed(q)
          => unit.out.answers[q].text =
                IF Len(unit.in.cfg.questions) = 1 THEN unit.in.x.text_content ELSE ""

(***************************************************************************)
(* _check_human_review_needed on the question grades of one submission.    *)
(***************************************************************************)
Reasoning49 == "The result is wrong and no work is shown for it.."
Reasoning50 == "The result is wrong and no work is shown for it..."

\* extracted_from_image with the notes of a grade
NotedShapes ==
    { [im |-> FALSE, no |-> NoValue], [im |-> TRUE, no |-> "Processed 1 images"],
      [im |-> TRUE, no |-> "Vision error on page 2"],
      [im |-> FALSE, no |-> "Vision error on page 2"] }

\* the grades question i of the bank can get
GradeShapes(i) ==
    { [question_id |-> QuestionBank[i].id, score |-> sc,
       max_score |-> QuestionBank[i].points, reasoning |-> re,
       feedback |-> NoValue, criteria_met |-> <<>>, criteria_missed |-> <<>>,
       extracted_from_image |-> n.im, image_processing_notes |-> n.no] :
        sc \in {0, QuestionBank[i].points - 1, QuestionBank[i].points},
        re \in {Reasoning49, Reasoning50},
        n \in NotedShapes }

RECURSIVE GradeListsOf(_)
\* the lists of grades for the first n questions of the bank
GradeListsOf(n) ==
    IF n = 0 THEN {<<>>}
    ELSE {Append(qs, g) : qs \in GradeListsOf(n - 1), g \in GradeShapes(n)}

GradeLists == UNION {GradeListsOf(n) : n \in 1..MaxQuestions}

InitReview ==
    /\ UnitStart
    /\ unit \in { [op |-> "call", question_grades |-> qs] : qs \in GradeLists }

CheckReviewCall ==
    /\ unit.op = "call"
    /\ Returned(_check_human_review_needed(unit.question_grades,
                    _calculate_statistics(unit.question_grades)))
    /\ UnitFrame

SpecReview == InitReview /\ [][CheckReviewCall]_vars

\* the four conditions of the claim C8, stated on the list of question grades
MostlyZero(qs) == 2 * Cardinality({i \in DOMAIN qs : qs[i].score = 0}) > Len(qs)

NearPerfectWithDeductions(qs) ==
    /\ 100 * SumSeq([i \in DOMAIN qs |-> qs[i].score])
         > 95 * SumSeq([i \in DOMAIN qs |-> qs[i].max_score])
    /\ \E i \in DOMAIN qs : qs[i].score # qs[i].max_score

ImageErrorQuestions(qs) ==
    {i \in DOMAIN qs : qs[i].extracted_from_image
                       /\ ContainsError(qs[i].image_processing_notes)}

UnderExplainedZeros(qs) ==
    {i \in DOMAIN qs : qs[i].score = 0 /\ Len(qs[i].reasoning) < 50}

\* one entry per condition that holds, in the order of the claim
ExpectedReasons(qs) ==
    (IF MostlyZero(qs) THEN <<ReasonMostZero>> ELSE <<>>)
    \o (IF NearPerfectWithDeductions(qs) THEN <<ReasonNearPerfect>> ELSE <<>>)
    \o (IF ImageErrorQuestions(qs) # {}
        THEN <<ReasonImageIssues(Cardinality(ImageErrorQuestions(qs)))>> ELSE <<>>)
    \o (IF UnderExplainedZeros(qs) # {}
        THEN <<ReasonUnclear(Cardinality(UnderExplainedZeros(qs)))>> ELSE <<>>)

\* C8: the human-review decision is true exactly when at least one of the four
\* conditions holds (more than half of the questions scored zero; percentage
\* above 95 while not every question is perfect; an image-extraction error
\* noted; a zero-score question with a reasoning under 50 characters); the
\* reason is the "; "-joined list with one entry per condition that holds, and
\* there is no reason when the decision is false.
C8_ReviewDecision ==
    unit.op = "returned"
    => LET qs == unit.in.question_grades
       IN /\ unit.out.requires_review
               <=> \/ MostlyZero(qs)
                   \/ NearPerfectWithDeductions(qs)
                   \/ ImageErrorQuestions(qs) # {}
                   \/ UnderExplainedZeros(qs) # {}
          /\ unit.out.requires_review
               => unit.out.review_reason = JoinStrings(ExpectedReasons(qs), "; ")
          /\ ~unit.out.requires_review => unit.out.review_reason = NoValue

\* a submission flagged for two reasons at once
C8_FlaggedForTwoReasons ==
    /\ unit.op = "returned"
    /\ unit.out.requires_review
    /\ Len(ExpectedReasons(unit.in.question_grades)) >= 2
    /\ MostlyZero(unit.in.question_grades)

(***************************************************************************)
(* parse_filename on one filename.                                         *)
(***************************************************************************)
MaxTokens == 3

Chars(str) ==
    CASE str = "bob" -> <<"b","o","b">>
      [] str = "a.b" -> <<"a",".","b">>
      [] str = "LATE" -> LATE
      [] str = "late" -> <<"l","a","t","e">>
      [] str = "LaTe" -> <<"L","a","T","e">>
      [] str = "1234" -> <<"1","2","3","4">>
      [] str = "654321" -> <<"6","5","4","3","2","1">>
      [] str = "0000" -> <<"0","0","0","0">>
      [] str = "987654" -> <<"9","8","7","6","5","4">>
      [] str = "123" -> <<"1","2","3">>
      [] str = "hw3" -> <<"h","w","3">>
      [] str = "hw_3" -> <<"h","w","_","3">>
      [] str = "v1.2" -> <<"v","1",".","2">>
      [] str = ".pdf" -> <<".","p","d","f">>
      [] str = ".PY" -> <<".","P","Y">>
      [] str = ".p_y" -> <<".","p","_","y">>
      [] str = "." -> <<".">>
      [] OTHER -> <<>>

\* the parts of a name of the form name_LATE_id1_id2_rest.ext
LateForms ==
    [name : {"bob", "", "a.b"}, late : {"LATE", "late", "LaTe"},
     id1 : {"1234", "654321"}, id2 : {"0000", "987654"},
     rest : {"hw3", "hw_3", "0000", "v1.2", ""}, ext : {".pdf", ".PY", ".p_y", "."}]

FormName(f) ==
    JoinWith(<<Chars(f.name), Chars(f.late), Chars(f.id1), Chars(f.id2), Chars(f.rest)>>, "_")
    \o Chars(f.ext)

GeneralTokens == {"bob", "LATE", "1234", "123", "hw3", "", "654321"}

RECURSIVE TokenLists(_)
TokenLists(n) ==
    IF n = 0 THEN {<<>>}
    ELSE {Append(ts, Chars(t)) : ts \in TokenLists(n - 1), t \in GeneralTokens}

\* names of up to MaxTokens tokens, with and without an extension
GeneralNames ==
    UNION { {JoinWith(ts, "_") \o Chars(e) : ts \in TokenLists(n), e \in {".PY", ""}} :
            n \in 1..MaxTokens }

ScanTokens == {"1234", "654321", "123", "hw3", "LATE", "late", ""}

RECURSIVE ScanLists(_)
ScanLists(n) ==
    IF n = 0 THEN {<<>>}
    ELSE {Append(ts, t) : ts \in ScanLists(n - 1), t \in ScanTokens}

\* the tokens after the name of a file of student bob: a LATE marker or none
\* (""), then up to MaxTokens tokens, the first of which is no LATE marker
\* when there is none before it
ScanForms ==
    { sc \in [marker : {"", "LaTe"}, tokens : UNION {ScanLists(n) : n \in 0..MaxTokens}] :
        (sc.marker = "" /\ sc.tokens # <<>>) => sc.tokens[1] \notin {"LATE", "late"} }

ScanName(sc) ==
    JoinWith(<<Chars("bob")>>
             \o (IF sc.marker = "" THEN <<>> ELSE <<Chars(sc.marker)>>)
             \o [i \in DOMAIN sc.tokens |-> Chars(sc.tokens[i])], "_")
    \o Chars(".PY")

InitParseName ==
    /\ UnitStart
    /\ unit \in { [op |-> "call", form |-> <<f>>, scan |-> <<>>,
                    arg |-> [str |-> TRUE, chars |-> FormName(f)]] : f \in LateForms }
          \cup { [op |-> "call", form |-> <<>>, scan |-> <<>>,
                    arg |-> [str |-> TRUE, chars |-> c]] : c \in GeneralNames }
          \cup { [op |-> "call", form |-> <<>>, scan |-> <<sc>>,
                    arg |-> [str |-> TRUE, chars |-> ScanName(sc)]] : sc \in ScanForms }
          \cup { [op |-> "call", form |-> <<>>, scan |-> <<>>, arg |-> [str |-> FALSE]] }

ParseNameCall ==
    /\ unit.op = "call"
    /\ Returned(parse_filename_try(unit.arg))
    /\ UnitFrame

SpecParseName == InitParseName /\ [][ParseNameCall]_vars

\* C11: for a filename name_LATE_id1_id2_rest.ext, name without underscore,
\* id1 and id2 all digits and at least 4 long, LATE in any letter case,
\* parse_filename yields student_name = name, is_late = true, student_id = id1
\* and submission_id = id2.
C11_LateFormParsed ==
    (unit.op = "returned" /\ unit.in.form # <<>>)
    => LET f == unit.in.form[1]
       IN /\ unit.out.student_name = Chars(f.name)
          /\ unit.out.is_late
          /\ unit.out.student_id = Chars(f.id1)
          /\ unit.out.submission_id = <<Chars(f.id2)>>

\* a late name in lower case whose rest is a third number
C11_LowerCaseLateParsed ==
    /\ unit.op = "returned"
    /\ unit.in.form # <<>>
    /\ unit.in.form[1].late = "late"
    /\ unit.in.form[1].rest = "0000"
    /\ unit.out.is_late
    /\ unit.out.remainder = Chars("0000")

\* C12: parse_filename returns a record for every argument, and for every
\* filename with fewer than 2 underscore-separated tokens the record has
\* student_id = "unknown", is_late = false and no submission_id.
C12_TotalAndUnknown ==
    unit.op = "returned"
    => /\ DOMAIN unit.out = {"student_name", "is_late", "student_id", "submission_id",
                             "remainder", "extension", "original_filename"}
       /\ (unit.in.arg.str /\ \A i \in DOMAIN unit.in.arg.chars : unit.in.arg.chars[i] # "_")
          => /\ unit.out.student_id = Unknown
             /\ ~unit.out.is_late
             /\ unit.out.submission_id = <<>>

\* a one-token name made of digits, and an argument that is no string
C12_NumberOnlyName ==
    /\ unit.op = "returned"
    /\ unit.in.arg.str
    /\ unit.in.arg.chars = Chars("1234") \o Chars(".PY")
    /\ unit.out.student_id = Unknown

\* the positions of the all-digit tokens of length >= 4 among the tokens
LongNumbers(tokens) == {i \in DOMAIN tokens : tokens[i] \in {"1234", "654321"}}

\* the first n elements of an increasing sequence
FirstOf(seq, n) == {seq[k] : k \in {j \in DOMAIN seq : j <= n}}

\* C23: of the tokens after the name and the LATE marker, the first all-digit
\* token of length >= 4 is student_id, the second is submission_id, and
\* remainder is the "_"-join of all the others in their order, a later LATE
\* token included.
C23_ScanAccountsForEveryToken ==
    (unit.op = "returned" /\ unit.in.scan # <<>>)
    => LET sc == unit.in.scan[1]
           tokens == sc.tokens
           long == SeqOfSet(LongNumbers(tokens))
           others == SeqOfSet(DOMAIN tokens \ FirstOf(long, 2))
       IN /\ unit.out.student_name = Chars("bob")
          /\ unit.out.is_late = (sc.marker # "")
          /\ unit.out.student_id = IF Len(long) >= 1 THEN Chars(tokens[long[1]]) ELSE Unknown
          /\ unit.out.submission_id = IF Len(long) >= 2 THEN <<Chars(tokens[long[2]])>> ELSE <<>>
          /\ unit.out.remainder =
                JoinWith([k \in DOMAIN others |-> Chars(tokens[others[k]])], "_")

\* two numbers after the name, then a LATE token: the token is the remainder
\* and the file is not late
C23_ThirdNumberAndLateInRemainder ==
    /\ unit.op = "returned"
    /\ unit.in.scan # <<>>
    /\ unit.in.scan[1] = [marker |-> "", tokens |-> <<"1234", "654321", "LATE">>]
    /\ unit.out.remainder = LATE
    /\ ~unit.out.is_late

(***************************************************************************)
(* group_files_by_student and categorize_files_by_type on one list of file *)
(* paths, in any order and with repetitions.                               *)
(***************************************************************************)
RECURSIVE PathLists(_)
PathLists(n) ==
    IF n = 0 THEN {<<>>}
    ELSE {Append(fs, f) : fs \in PathLists(n - 1), f \in FileIds}

\* file names of two students with and without a LATE marker, a student id
\* and a further token
KeyNames ==
    { name \o marker \o id \o rest \o <<".","p","y">> :
        name \in {<<"a","l">>, <<"b","o">>},
        marker \in {<<>>, <<"_","L","A","T","E">>},
        id \in {<<>>, <<"_","1","2","3","4">>, <<"_","5","6","7","8">>},
        rest \in {<<>>, <<"_","9","0","1","2">>, <<"_","h","w">>} }

InitFiles ==
    /\ UnitStart
    /\ unit \in [op : {"call"}, fn : {"group", "categorize"},
                  file_paths : UNION {PathLists(n) : n \in 0..(MaxFiles + 1)}]
              \cup [op : {"call"}, fn : {"key"}, names : KeyNames \X KeyNames]

\* the keys group_files_by_student computes for two file names
StudentKeysCall ==
    /\ unit.op = "call"
    /\ unit.fn = "key"
    /\ Returned(<<identify_student_key(parse_filename(unit.names[1])),
                  identify_student_key(parse_filename(unit.names[2]))>>)
    /\ UnitFrame

GroupFilesCall ==
    /\ unit.op = "call"
    /\ unit.fn = "group"
    /\ Returned(group_files_by_student(unit.file_paths))
    /\ UnitFrame

CategorizeFilesCall ==
    /\ unit.op = "call"
    /\ unit.fn = "categorize"
    /\ Returned(categorize_files_by_type(unit.file_paths))
    /\ UnitFrame

SpecFiles == InitFiles /\ [][GroupFilesCall \/ CategorizeFilesCall \/ StudentKeysCall]_vars

\* parse_filename gives the two names the same student_name and student_id
SameStudent(n1, n2) ==
    /\ parse_filename(n1).student_name = parse_filename(n2).student_name
    /\ parse_filename(n1).student_id = parse_filename(n2).student_id

\* C30: the student key is injective on (student_name, student_id): two file
\* names get the same key, and two files fall into the same group, exactly
\* when parse_filename gives them the same student_name and student_id,
\* whatever their LATE marker, submission id and remainder; so every group
\* of group_files_by_student passes validate_group_consistency.
C30_KeyIsNameAndId ==
    unit.op = "returned"
    => /\ unit.in.fn = "key"
          => (unit.out[1] = unit.out[2]
              <=> SameStudent(unit.in.names[1], unit.in.names[2]))
       /\ unit.in.fn = "group"
          => /\ \A k \in DOMAIN unit.out : validate_group_consistency(unit.out[k].files)
             /\ \A f, g \in Range(unit.in.file_paths) :
                   (\E k \in DOMAIN unit.out : {f, g} \subseteq Range(unit.out[k].files))
                   <=> SameStudent(Catalog[f], Catalog[g])

\* two names of the same student name with different ids get different keys,
\* although one has a LATE marker and a submission id
C30_SameNameOtherId ==
    /\ unit.op = "returned"
    /\ unit.in.fn = "key"
    /\ unit.in.names[1] = <<"a","l","_","1","2","3","4",".","p","y">>
    /\ unit.in.names[2] = <<"a","l","_","L","A","T","E","_","5","6","7","8",
                             "_","9","0","1","2",".","p","y">>
    /\ unit.out[1] # unit.out[2]
    /\ parse_filename(unit.in.names[2]).is_late


\* the elements of file_paths that are in the set S, in the order of file_paths
Restricted(file_paths, S) == SelectSeq(file_paths, LAMBDA f : f \in S)

\* C13: group_files_by_student is a partition of its input: every input path
\* is in exactly one group's list, the group sizes sum to the number of input
\* files, no group is empty, and a group's files keep their input order.
C13_GroupingIsPartition ==
    (unit.op = "returned" /\ unit.in.fn = "group")
    => LET file_paths == unit.in.file_paths
           grouped == unit.out
       IN /\ \A f \in Range(file_paths) :
                Cardinality({i \in DOMAIN grouped : f \in Range(grouped[i].files)}) = 1
          /\ \A i \in DOMAIN grouped : Range(grouped[i].files) \subseteq Range(file_paths)
          /\ SumSeq([i \in DOMAIN grouped |-> Len(grouped[i].files)]) = Len(file_paths)
          /\ \A i \in DOMAIN grouped : grouped[i].files # <<>>
          /\ \A i \in DOMAIN grouped :
                grouped[i].files = Restricted(file_paths, Range(grouped[i].files))

\* three files of two students, the second student's file between the
\* first student's two
C13_InterleavedStudentsGrouped ==
    /\ unit.op = "returned"
    /\ unit.in.fn = "group"
    /\ unit.in.file_paths = <<2, 4, 1>>
    /\ Len(unit.out) = 2
    /\ unit.out[1].files = <<2, 1>>

\* the bucket of each file of the catalog, by its lower-cased extension
BucketOf(f) ==
    CASE f \in {1, 5} -> "code"
      [] f \in {2, 3, 4} -> "document"
      [] OTHER -> "other"

\* C14: categorize_files_by_type is a partition of its input: every file is
\* in exactly one of the buckets code, document, other, the one its
\* lower-cased extension chooses.
C14_CategoriesArePartition ==
    (unit.op = "returned" /\ unit.in.fn = "categorize")
    => LET file_paths == unit.in.file_paths
           out == unit.out
       IN /\ DOMAIN out = {"code", "document", "other"}
          /\ \A f \in Range(file_paths) :
                \A b \in DOMAIN out : f \in Range(out[b]) <=> b = BucketOf(f)
          /\ \A b \in DOMAIN out :
                out[b] = Restricted(file_paths, {f \in FileIds : BucketOf(f) = b})
          /\ Len(out.code) + Len(out.document) + Len(out.other) = Len(file_paths)

\* a list with a .PDF, a .py and a .zip file fills the three buckets
C14_UpperCaseExtensionIsDocument ==
    /\ unit.op = "returned"
    /\ unit.in.fn = "categorize"
    /\ unit.in.file_paths = <<4, 6, 1>>
    /\ unit.out.document = <<4>>
    /\ unit.out.other = <<6>>
    /\ unit.out.code = <<1>>

(***************************************************************************)
(* The two response parsers on one response text: _parse_llm_response of   *)
(* the grading agent and the parsing lines of _llm_map_to_questions.       *)
(***************************************************************************)
ResponseBodies ==
    { [t |-> "plain"], [t |-> "broken"], [t |-> "two_objects"] }
    \cup { JsonBody(j) :
             j \in { EmptyObject, JNull, JNum(4), JStr("q1"), JArr(<<JStr("q1")>>),
                     JObj("q1" :> JStr("answer one")),
                     JObj("q1" :> AnswerJson("answer one")),
                     JObj("score" :> JNum(7)),
                     JObj(("q2" :> AnswerJson("answer two")) @@ ("q9" :> AnswerJson("stray"))),
                     JArr(<<>>) } }

ResponseTexts == [wrap : {"none", "fence", "prose", "braced"}, body : ResponseBodies]

InitParsers ==
    /\ UnitStart
    /\ unit \in [op : {"call"}, parser : {"grading", "alignment"}, text : ResponseTexts]

ParseGradingCall ==
    /\ unit.op = "call"
    /\ unit.parser = "grading"
    /\ Returned(_parse_llm_response(unit.text))
    /\ UnitFrame

ParseAlignmentCall ==
    /\ unit.op = "call"
    /\ unit.parser = "alignment"
    /\ Returned(ParseMapping([raised |-> FALSE, text |-> unit.text]))
    /\ UnitFrame

SpecParsers == InitParsers /\ [][ParseGradingCall \/ ParseAlignmentCall]_vars

\* the value of the first of direct parse, fenced-block extraction and greedy
\* brace-span extraction that succeeds; not ok when all three fail
ThreeStage(text) ==
    IF json_loads(text).ok THEN json_loads(text)
    ELSE IF fenced_block_loads(text).ok THEN fenced_block_loads(text)
    ELSE IF greedy_span_loads(text).ok THEN greedy_span_loads(text)
    ELSE [ok |-> FALSE]

\* C20: the alignment response parser and the grading response parser both
\* return the value of the first strategy that succeeds in the order direct
\* parse, fenced-block extraction, greedy brace-span extraction, and report
\* failure only when all three fail.
C20_ThreeStageOrder ==
    unit.op = "returned" => unit.out = ThreeStage(unit.in.text)

(***************************************************************************)
(* generate_report on one list of question grades and one behaviour of the *)
(* narrative call.  Every grade is out of 20 points; the lists are single  *)
(* grades and pairs of every shape, and lists of 5 to MaxGrades grades of  *)
(* three shapes.                                                           *)
(***************************************************************************)
MaxGrades == 6

Criteria(tag) == IF tag = "" THEN <<>> ELSE <<tag \o "1", tag \o "2", tag \o "3">>

\* the grade of the k-th question of a list
ReportGrade(k, score, met, missed) ==
    [question_id |-> "q" \o ToString(k), score |-> score, max_score |-> 20,
     reasoning |-> LongReasoning, feedback |-> NoValue,
     criteria_met |-> Criteria(met), criteria_missed |-> Criteria(missed),
     extracted_from_image |-> FALSE, image_processing_notes |-> NoValue]

\* 90, 85, 75, 70, 60 and 55 percent, with and without criteria
AnyShape(k) ==
    { ReportGrade(k, sc, met, missed) :
        sc \in {18, 17, 15, 14, 12, 11}, met \in {"", "met"}, missed \in {"", "missed"} }

\* a strength, a weakness, and a grade that is neither
PlainShape(k) ==
    { ReportGrade(k, 20, "met", ""), ReportGrade(k, 10, "", ""), ReportGrade(k, 16, "", "") }

RECURSIVE PlainLists(_)
PlainLists(n) ==
    IF n = 0 THEN {<<>>}
    ELSE {Append(qs, g) : qs \in PlainLists(n - 1), g \in PlainShape(n)}

ReportLists ==
    {<<g>> : g \in AnyShape(1)}
    \cup {<<g, h>> : g \in AnyShape(1), h \in AnyShape(2)}
    \cup UNION {PlainLists(n) : n \in 5..MaxGrades}

InitReport ==
    /\ UnitStart
    /\ unit \in [op : {"call"}, question_grades : ReportLists,
                 cfg : {AssignmentConfig(MaxQuestions, "null", FALSE)}, narr : Narratives]

GenerateReportCall ==
    /\ unit.op = "call"
    /\ Returned(generate_report(unit.question_grades, unit.cfg, unit.narr))
    /\ UnitFrame

SpecReport == InitReport /\ [][GenerateReportCall]_vars

\* the sentence of the fallback comment for a percentage total / max
BandSentence(total, max) ==
    IF 100 * total >= 90 * max THEN "Excellent work!"
    ELSE IF 100 * total >= 80 * max THEN "Very good work overall."
    ELSE IF 100 * total >= 70 * max THEN "Good effort."
    ELSE IF 100 * total >= 60 * max THEN "Satisfactory work."
    ELSE "This assignment needs significant improvement."

WithoutComment(report) == [report EXCEPT !.overall_comment = ""]

\* C25: generate_report makes at most one narrative call; when the call fails
\* the report is returned with the comment of the percentage band (>= 90,
\* >= 80, >= 70, >= 60, else), and every other field is what it is when the
\* call succeeds.
C25_NarrativeFailureFallsBack ==
    unit.op = "returned"
    => LET qs == unit.in.question_grades
           total == SumSeq([k \in DOMAIN qs |-> qs[k].score])
           max == SumSeq([k \in DOMAIN qs |-> qs[k].max_score])
       IN /\ unit.out.llm_calls <= 1
          /\ unit.in.narr.raised
             => /\ unit.out.overall_comment =
                      BandSentence(total, max) \o " Score: " \o ToString(total)
                      \o "/" \o ToString(max)
                /\ \A narr \in Narratives :
                      WithoutComment(unit.out)
                        = WithoutComment(generate_report(qs, unit.in.cfg, narr))

\* the narrative call failed on 29 of 40 points: the comment of the 70 band
C25_FellBackInSeventyBand ==
    /\ unit.op = "returned"
    /\ unit.in.narr.raised
    /\ unit.out.total_score = 29
    /\ unit.out.max_score = 40
    /\ unit.out.overall_comment = "Good effort. Score: 29/40"

\* the questions that are a strength, and those that are a weakness, by band
IsStrength(q) ==
    \/ 100 * q.score >= 90 * q.max_score
    \/ 100 * q.score >= 75 * q.max_score /\ q.criteria_met # <<>>

IsWeakness(q) ==
    \/ 100 * q.score < 60 * q.max_score
    \/ 100 * q.score < 75 * q.max_score /\ q.criteria_missed # <<>>

\* the labels of the first five of the questions selected, in question order
FirstFiveLabels(cfg, selected) ==
    [k \in DOMAIN FirstFive(selected) |-> QuestionLabel(cfg, selected[k].question_id)]

\* C26: each question gives at most one entry, by its percentage band: >= 90
\* a strength; 75-89 a strength only with criteria met; < 60 a weakness; 60-74
\* a weakness only with criteria missed; no question gives both; each list
\* keeps question order and is cut to its first 5 entries.
C26_EntriesByBand ==
    unit.op = "returned"
    => LET qs == unit.in.question_grades
           strengths == unit.out.strengths
           weaknesses == unit.out.areas_for_improvement
       IN /\ [k \in DOMAIN strengths |-> strengths[k].label]
               = FirstFiveLabels(unit.in.cfg, SelectSeq(qs, IsStrength))
          /\ [k \in DOMAIN weaknesses |-> weaknesses[k].label]
               = FirstFiveLabels(unit.in.cfg, SelectSeq(qs, IsWeakness))
          /\ \A k \in DOMAIN qs : ~(IsStrength(qs[k]) /\ IsWeakness(qs[k]))
          /\ Len(strengths) <= 5 /\ Len(weaknesses) <= 5

\* six strong questions: the sixth is cut from the list of strengths
C26_SixthStrengthCut ==
    /\ unit.op = "returned"
    /\ Len(unit.in.question_grades) = 6
    /\ \A k \in 1..6 : unit.in.question_grades[k].score = 20
    /\ Len(unit.out.strengths) = 5
    /\ unit.out.strengths[5].label = "q5"

(***************************************************************************)
(* PromptBuilder (utils/prompt_builder.py): the prompt of one grading call *)
(* as the lists of parts that "\n".join makes the two prompts of.  An      *)
(* Optional value is <<>> for None and <<v>> otherwise; a custom_scoring   *)
(* dictionary is the sequence of its items.                                *)
(***************************************************************************)
\* PromptBuilder.__init__: an invalid grading mode becomes "full"
PromptBuilder(grading_mode) ==
    IF grading_mode \in {"basic", "standard", "full"} THEN grading_mode ELSE "full"

\* "  - <label>: <points> points" for an Optional number
PointsLine(label, points) ==
    IF points = <<>> THEN <<>>
    ELSE <<"  - " \o label \o ": " \o ToString(points[1]) \o " points">>

\* _format_rubric: the parts it joins
_format_rubric(grading_mode, rubric, question_points) ==
    (IF grading_mode \in {"standard", "full"} /\ rubric.criteria # <<>>
     THEN <<"Grading Criteria:">>
          \o [k \in DOMAIN rubric.criteria |-> "  - " \o rubric.criteria[k]]
     ELSE <<>>)
    \o <<"\nScoring Guidelines:">>
    \o (IF rubric.correct # <<>> THEN PointsLine("Full Credit (Correct)", rubric.correct)
        ELSE PointsLine("Full Credit (Correct)", <<question_points>>))
    \o PointsLine("Mostly Correct (minor errors)", rubric.mostly_correct)
    \o PointsLine("Attempted (partial understanding)", rubric.attempted)
    \o PointsLine("No Submission/No Attempt", <<rubric.no_submission>>)
    \o (IF grading_mode \in {"standard", "full"}
           /\ rubric.instructions # <<>> /\ rubric.instructions # <<"">>
        THEN <<"\nAdditional Instructions:\n" \o rubric.instructions[1]>>
        ELSE <<>>)
    \o (IF rubric.custom_scoring # <<>>
        THEN <<"\nCustom Scoring Rules:">>
             \o [k \in DOMAIN rubric.custom_scoring |->
                   "  - " \o rubric.custom_scoring[k].key \o ": "
                   \o rubric.custom_scoring[k].value]
        ELSE <<>>)

\* the parts of the system prompt before the answer key
PromptHead(cfg, question) ==
    <<"You are an expert grading assistant.",
      "\n\nASSIGNMENT: " \o cfg.assignment_name>>
    \o (IF cfg.course_code # <<>> /\ cfg.course_code # <<"">>
        THEN <<"Course: " \o cfg.course_code[1]>> ELSE <<>>)
    \o <<"QUESTION (ID: " \o question.id \o ") - " \o ToString(question.points) \o " points",
         "\n" \o question.text>>

\* the parts from the rubric on, and the user prompt
PromptRubric(grading_mode, cfg, question) ==
    LET rubric == IF question.rubric # <<>> THEN question.rubric ELSE cfg.general_rubric
    IN IF rubric = <<>> THEN <<>>
       ELSE <<"\n\n[GRADING RUBRIC]:">>
            \o _format_rubric(grading_mode, rubric[1], question.points)

PromptTail == <<"\n\nOUTPUT FORMAT:", "\n\nGRADING GUIDELINES:">>

UserPrompt(student_answer, context) ==
    <<"STUDENT'S ANSWER:", "\n" \o student_answer>>
    \o (IF context # <<>> /\ context # <<"">>
        THEN <<"\n[Additional Context from Submission]:", context[1]>> ELSE <<>>)
    \o <<"\nPlease grade this answer based on the question and rubric provided.">>

AnswerKeyPart(answer_key) == "\n\n[MODEL ANSWER/ANSWER KEY]:\n" \o answer_key

\* a prompt that shows the answer key in every mode but basic
build_single_question_prompt_keyed(grading_mode, cfg, question, student_answer, context) ==
    [system |-> PromptHead(cfg, question)
                \o (IF grading_mode # "basic"
                       /\ question.answer_key # <<>> /\ question.answer_key # <<"">>
                    THEN <<AnswerKeyPart(question.answer_key[1])>> ELSE <<>>)
                \o PromptRubric(grading_mode, cfg, question) \o PromptTail,
     user |-> UserPrompt(student_answer, context)]

\* build_single_question_prompt of a PromptBuilder with self.grading_mode =
\* grading_mode and self.config = cfg
build_single_question_prompt(grading_mode, cfg, question, student_answer, context) ==
    [system |-> PromptHead(cfg, question)
                \o (IF grading_mode = "full"
                       /\ question.answer_key # <<>> /\ question.answer_key # <<"">>
                    THEN <<AnswerKeyPart(question.answer_key[1])>> ELSE <<>>)
                \o PromptRubric(grading_mode, cfg, question) \o PromptTail,
     user |-> UserPrompt(student_answer, context)]

(***************************************************************************)
(* One grading prompt, for every mode, rubric and answer key.              *)
(***************************************************************************)
Rubric(criteria, instructions, correct, custom_scoring) ==
    [criteria |-> criteria, instructions |-> instructions, correct |-> correct,
     mostly_correct |-> IF correct = <<>> THEN <<>> ELSE <<7>>,
     attempted |-> IF correct = <<>> THEN <<>> ELSE <<3>>,
     no_submission |-> 0, custom_scoring |-> custom_scoring]

QuestionRubrics ==
    { <<>>,
      <<Rubric(<<"states the theorem", "proves each case">>, <<"Accept any valid proof.">>,
               <<>>, <<>>)>>,
      <<Rubric(<<>>, <<>>, <<10>>, <<[key |-> "late", value |-> "-1"]>>)>> }

GeneralRubrics ==
    { <<>>, <<Rubric(<<"is legible">>, <<"">>, <<>>, <<>>)>> }

AnswerKeys == { <<>>, <<"">>, <<"By induction on n.">>, <<"By contradiction.">> }

PromptQuestions ==
    [id : {"q1"}, points : {10}, text : {"Prove the claim."},
     answer_key : AnswerKeys, rubric : QuestionRubrics]

PromptConfigs ==
    [assignment_name : {"Homework 1"}, course_code : {<<>>, <<"CS101">>},
     general_rubric : GeneralRubrics]

InitPrompt ==
    /\ UnitStart
    /\ unit \in [op : {"call"}, grading_mode : {"basic", "standard", "full", "strict"},
                 cfg : PromptConfigs, question : PromptQuestions,
                 student_answer : {"By induction."}, context : {<<>>, <<"See page 2.">>}]

BuildPromptCall ==
    /\ unit.op = "call"
    /\ Returned(build_single_question_prompt(PromptBuilder(unit.grading_mode), unit.cfg,
                    unit.question, unit.student_answer, unit.context))
    /\ UnitFrame

SpecPrompt == InitPrompt /\ [][BuildPromptCall]_vars

\* what a prompt discloses: its parts
Disclosed(prompt) == Range(prompt.system) \cup Range(prompt.user)

\* the prompt of the call of the state in another mode, with another key
PromptIn(grading_mode, answer_key) ==
    build_single_question_prompt(grading_mode, unit.in.cfg,
        [unit.in.question EXCEPT !.answer_key = answer_key],
        unit.in.student_answer, unit.in.context)

\* the parts that show rubric criteria or instructions, and the answer key
CriteriaParts ==
    {"Grading Criteria:", "  - states the theorem", "  - proves each case", "  - is legible",
     "\nAdditional Instructions:\nAccept any valid proof."}

KeyParts == {AnswerKeyPart(k[1]) : k \in AnswerKeys \ {<<>>}}

\* C27: what the prompt discloses in basic is disclosed in standard, and what
\* it discloses in standard is disclosed in full; criteria and instructions
\* appear only in standard and full, the reference answer only in full; in
\* basic and standard the prompt is the same for every reference answer.
C27_ModesAreNested ==
    (unit.op = "returned" /\ unit.in.grading_mode \in {"basic", "standard", "full"})
    => LET mode == unit.in.grading_mode
           key == unit.in.question.answer_key
       IN /\ unit.out = PromptIn(mode, key)
          /\ Disclosed(PromptIn("basic", key)) \subseteq Disclosed(PromptIn("standard", key))
          /\ Disclosed(PromptIn("standard", key)) \subseteq Disclosed(PromptIn("full", key))
          /\ Disclosed(unit.out) \cap CriteriaParts # {} => mode \in {"standard", "full"}
          /\ Disclosed(unit.out) \cap KeyParts # {} => mode = "full"
          /\ mode \in {"basic", "standard"}
             => \A k \in AnswerKeys : PromptIn(mode, k) = unit.out

\* a standard-mode prompt for a question with criteria and a reference
\* answer: the criteria are in the prompt, the reference answer is not
C27_StandardShowsCriteriaOnly ==
    /\ unit.op = "returned"
    /\ unit.in.grading_mode = "standard"
    /\ unit.in.question.answer_key = <<"By induction on n.">>
    /\ "  - states the theorem" \in Disclosed(unit.out)
    /\ Disclosed(unit.out) \cap KeyParts = {}
    /\ AnswerKeyPart("By induction on n.") \in Disclosed(PromptIn("full", unit.in.question.answer_key))

(***************************************************************************)
(* _grade_document_submission on the two document files of one student,    *)
(* up to the grading call, for every world of the two files.               *)
(***************************************************************************)
InitCombine ==
    /\ UnitStart
    /\ unit \in [op : {"call"}, cfg : UnitConfigs, doc_files : {<<2, 3>>},
                 ws : [1..2 -> DocWorlds], image_processing : BOOLEAN]

GradeDocumentsCall ==
    /\ unit.op = "call"
    /\ Returned(DocumentStage(unit.cfg, unit.doc_files, get_student_info(unit.doc_files),
                              unit.ws, unit.image_processing))
    /\ UnitFrame

SpecCombine == InitCombine /\ [][GradeDocumentsCall]_vars

\* what file i of the call yielded on its own
FileAnswers(i) ==
    extract_answers(unit.in.doc_files[i], unit.in.cfg, unit.in.image_processing,
                    unit.in.ws[i])

\* the files of the call that are not empty, and the questions they answer
NonEmptyFiles == {i \in DOMAIN unit.in.doc_files : ~unit.in.ws[i].size_zero}

Answered == UNION {DOMAIN FileAnswers(i).answers : i \in NonEmptyFiles}

\* the labeled text of file i for question q: nothing for an empty file or a
\* blank text
Labeled(i, q) ==
    IF i \in NonEmptyFiles /\ q \in DOMAIN FileAnswers(i).answers
       /\ ~IsBlank(FileAnswers(i).answers[q].text)
    THEN "\n\n--- From " \o StrOf(Catalog[unit.in.doc_files[i]]) \o " ---\n"
         \o FileAnswers(i).answers[q].text
    ELSE ""

RECURSIVE LabeledFrom(_, _)
\* the labeled texts of files i, i + 1, ... for question q, in file order
LabeledFrom(i, q) ==
    IF i > Len(unit.in.doc_files) THEN ""
    ELSE Labeled(i, q) \o LabeledFrom(i + 1, q)

\* no file of the call yields a non-blank text
NothingExtracted == \A i \in NonEmptyFiles : \A q \in DOMAIN FileAnswers(i).answers :
                        IsBlank(FileAnswers(i).answers[q].text)

\* the combined answers of a call whose files yield some text
C29_CombinedInFileOrder ==
    (unit.op = "returned" /\ ~NothingExtracted)
    => /\ ~unit.out.returned
       /\ DOMAIN unit.out.answers = Answered
       /\ \A q \in Answered :
             /\ unit.out.answers[q].text = LabeledFrom(1, q)
             /\ unit.out.answers[q].extracted_from_image
                <=> \E i \in NonEmptyFiles :
                       /\ q \in DOMAIN FileAnswers(i).answers
                       /\ FileAnswers(i).answers[q].extracted_from_image

\* C29: with several document files the combined text of every question is,
\* in file order and each under its labeled separator, exactly the non-blank
\* texts extracted from the non-empty files, and extracted_from_image is the
\* OR of the files' flags; when no file yields a non-blank text the student
\* gets the zero-score empty-submission record and no grading call is made.
C29_CombinedOrEmptyRecord ==
    /\ C29_CombinedInFileOrder
    /\ (unit.op = "returned" /\ NothingExtracted)
       => /\ unit.out.returned
          /\ unit.out.grade # NoGrade
          /\ unit.out.grade[1].total_score = 0
          /\ \A j \in DOMAIN unit.out.grade[1].questions :
                unit.out.grade[1].questions[j].score = 0

(***************************************************************************)
(* Properties of a run of the workflow (specifications Spec and FairSpec). *)
(***************************************************************************)
\* the run got past the batch-level checks: configuration loaded,
\* submissions directory present, at least one submission file
BatchStarted == groups # <<>>

\* the grades of the batch output that belong to the student of group k
RecordsOf(k) ==
    LET info == get_student_info(groups[k].files)
    IN { i \in DOMAIN grades :
            /\ grades[i].student_name = StrOf(info.student_name)
            /\ grades[i].student_id = StrOf(info.student_id) }

\* the Errored record: total 0, one zero-score entry per assignment question,
\* flagged for review with the fixed reason
IsErrorRecord(g) ==
    /\ g.total_score = 0
    /\ Len(g.questions) = Len(config.questions)
    /\ \A i \in DOMAIN g.questions :
          /\ g.questions[i].question_id = config.questions[i].id
          /\ g.questions[i].score = 0
    /\ g.requires_human_review
    /\ g.review_reason = ProcessingErrorReason

\* C1: when the batch is processed (configuration loaded, directory present,
\* at least one file), the returned grade list has exactly one record per
\* student group, whichever stage of a student's pipeline fails.
C1_OneRecordPerGroup ==
    (pc = "done" /\ BatchStarted) => Len(grades) = Len(groups)

\* C2: a student whose route ended in an exception has a full error record in
\* the batch output: total_score 0, one zero-score QuestionGrade per question,
\* requires_human_review true and the fixed review reason.
C2_ErrorRecordOnException ==
    \A k \in DOMAIN outcome :
        outcome[k] = "failed to grade"
        => \E i \in RecordsOf(k) : IsErrorRecord(grades[i])

\* C3: a failure while processing one group never aborts the batch: once the
\* loop has started, every group's iteration is started and ends.
C3_BatchNeverAborted ==
    BatchStarted ~> (pc = "done" /\ Len(outcome) = Len(groups))

\* a run in which the first student failed and a later one was still graded
C3_LaterGroupGradedAfterFailure ==
    /\ pc = "done"
    /\ Len(outcome) >= 2
    /\ outcome[1] = "failed to grade"
    /\ outcome[Len(outcome)] = "graded"

\* a question grade produced by _create_error_question_grade
IsErrorEntry(q) == q.score = 0 /\ q.reasoning = ErrorReasoning

\* C9: a student's final grade that holds an error entry (the grading call
\* raised or its response could not be parsed) is flagged for human review.
C9_ErrorEntryFlagged ==
    \A i \in DOMAIN grades :
        (\E j \in DOMAIN grades[i].questions : IsErrorEntry(grades[i].questions[j]))
        => grades[i].requires_human_review

\* the run met a fatal error: configuration missing or invalid, or the
\* submissions directory absent
FatalSetup == env.cfg # "ok" \/ ~env.dir_exists

\* C10: with the configuration missing or invalid, or the submissions
\* directory absent, run() fails: no group is processed, no model call is
\* made, no result artifact is saved, and the result is failure.
C10_FatalSetupAborts ==
    FatalSetup
    => /\ idx = 0 /\ cur = NoStudent /\ outcome = <<>> /\ grades = <<>>
       /\ modelCalls = 0
       /\ ~saved
       /\ runResult # "true"
       /\ pc \in {"start", "loaded", "done"}
       /\ (pc = "done" => runResult = "false")

\* run() has returned after a fatal setup error while submissions were waiting
C10_AbortedWithSubmissionsWaiting ==
    /\ pc = "done"
    /\ FatalSetup
    /\ env.listing # {}
    /\ runResult = "false"

\* C15: a student group's processing ends in one of the two terminal states
\* Reported or Errored: the route never ends without a record, and the record
\* it returns is an Errored record or went through the grading stage and the
\* report stage.
C15_EndsReportedOrErrored ==
    pc = "returned"
    => /\ cur.stage.grade # NoGrade
       /\ ~cur.stage.returned \/ IsErrorRecord(cur.stage.grade[1])

\* C16: the code route is taken exactly when the group has code files and no
\* document file, the document route exactly when it has document files and
\* no code file, the mixed route exactly when it has both; no group reaches a
\* route with neither kind of file.
C16_RouteByFileKinds ==
    pc = "route"
    => LET files == Range(groups[idx].files)
           has_code == \E f \in files : BucketOf(f) = "code"
           has_doc == \E f \in files : BucketOf(f) = "document"
       IN /\ cur.route = "code" <=> (has_code /\ ~has_doc)
          /\ cur.route = "document" <=> (has_doc /\ ~has_code)
          /\ cur.route = "mixed" <=> (has_code /\ has_doc)
          /\ has_code \/ has_doc

\* a student with a .py and a .txt file at the mixed route
C16_MixedRouteTaken ==
    /\ pc = "route"
    /\ cur.route = "mixed"
    /\ groups[idx].files = <<1, 2>>

\* the sum of the question scores of a grade
ScoreSum(g) == SumSeq([i \in DOMAIN g.questions |-> g.questions[i].score])

\* C22: every grade of the batch output has total_score equal to the sum of
\* the scores of its questions, and the report stage leaves total_score as
\* the grading stage set it.
C22_TotalIsSumOfScores ==
    /\ [](\A i \in DOMAIN grades : grades[i].total_score = ScoreSum(grades[i]))
    /\ [][(pc = "scored" /\ pc' = "returned")
          => cur'.stage.grade[1].total_score = cur.stage.grade[1].total_score]_vars

\* a reported grade of two questions with full marks in the batch output
C22_TwoFullMarksSummed ==
    \E i \in DOMAIN grades :
        /\ Len(grades[i].questions) = 2
        /\ grades[i].total_score = 20
        /\ grades[i].overall_comment # NoValue

\* the blobs of a mixed group: all code, a blank line, then all document text,
\* for every way the files may read
MixedBlobs ==
    { (IF y.read_raises THEN "" ELSE ConcatFiles(cur.code_files))
      \o "\n\n" \o DocText(cur.doc_files, ws, 1) :
        y \in CodeWorlds, ws \in [DOMAIN cur.doc_files -> DocWorlds] }

\* C24: on the mixed route the extraction stage makes no alignment call (its
\* only model calls are the file-purpose calls of a multi-file code
\* extraction), and every question of the assignment gets the same answer
\* text, the blob of all code followed by all document text, with
\* extracted_from_image false.
C24_MixedSkipsAlignment ==
    (pc = "extracted" /\ cur.route = "mixed")
    => /\ cur.stage.llm_calls
            <= (IF Len(cur.code_files) > 1 THEN Len(cur.code_files) ELSE 0)
       /\ DOMAIN cur.stage.answers = QuestionIds(config)
       /\ \A q \in QuestionIds(config) :
             /\ cur.stage.answers[q].text \in MixedBlobs
             /\ ~cur.stage.answers[q].extracted_from_image
             /\ \A r \in QuestionIds(config) :
                   cur.stage.answers[r].text = cur.stage.answers[q].text

\* a two-question assignment on the mixed route, extraction done
C24_MixedTwoQuestionsExtracted ==
    /\ pc = "extracted"
    /\ cur.route = "mixed"
    /\ Len(config.questions) = 2
    /\ cur.stage.answers["q1"].text = cur.stage.answers["q2"].text
    /\ modelCalls = 0

\* the route of a group, by the kinds of its files
RouteOf(files) ==
    LET has_code == \E f \in Range(files) : BucketOf(f) = "code"
        has_doc == \E f \in Range(files) : BucketOf(f) = "document"
    IN IF has_code /\ ~has_doc THEN "code"
       ELSE IF has_doc /\ ~has_code THEN "document" ELSE "mixed"

\* C28: every record of the batch output carries is_late equal to the late
\* flag of its group, file_count equal to the number of files of the group,
\* and the submission_type of the route the group took.
C28_RecordCarriesGroupFacts ==
    \A k \in DOMAIN groups : \A i \in RecordsOf(k) :
        /\ grades[i].is_late = <<get_student_info(groups[k].files).is_late>>
        /\ grades[i].file_count = <<Len(groups[k].files)>>
        /\ grades[i].submission_type = <<RouteOf(groups[k].files)>>

====
